---- MODULE Spec2Model ----
(***************************************************************************)
(* Model of the rule-based transaction-risk pipeline.                      *)
(*                                                                         *)
(* Threshold Store: class DynamicThresholdingEngine                        *)
(* (services/dynamicThresholding.ts).                                      *)
(* Fraud Estimator: analyzeFraud (components/TransactionDetail.tsx).       *)
(* Compliance Classifier, Log and Metrics: class ComplianceTracker         *)
(* (services/complianceTracking.ts).                                       *)
(* Explainability Engine and feature-importance counter: class            *)
(* ExplainabilityEngine (services/explainability.ts).                      *)
(* Data Ingestor: class DataIngestor (services/ingest.ts).                 *)
(* Upload and dashboard handlers: handleFileUpload, handleManualSubmit     *)
(* (components/TransactionDetail.tsx), loadExplanations                    *)
(* (components/ExplainabilityDashboard.tsx).                               *)
(*                                                                         *)
(* Numbers.  Thresholds, scores and adjustment factors are decimals; they  *)
(* are kept as integers counting millionths (0.45 is 450000).  Rates       *)
(* (falsePositiveRate, falseNegativeRate) count ten-thousandths (0.15 is   *)
(* 1500) and adaptationRate counts hundredths (0.08 is 8), so that         *)
(* adaptationRate * (rate - 0.10) is again a number of millionths.  The    *)
(* transaction samples the model draws have class totals that divide the   *)
(* rates exactly.                                                          *)
(***************************************************************************)
EXTENDS Integers, Sequences, FiniteSets, TLC

VARIABLES
    thresholdCache,     \* Map<string, ThresholdConfig>, in insertion order
    pc,                 \* position of the running adjustThresholdsBasedOnPerformance
    iter,               \* position of its Map iterator (1-based entry index)
    config,             \* the loop variable `config` of the current iteration
    metrics,            \* the loop body's local `metrics` (null before it is set)
    adjustment,         \* the loop body's local `adjustment`
    adjustments,        \* its local list `adjustments` (kept as the returned value)
    failed,             \* the `error` of the call the iteration last awaited
    observed,           \* what a caller read while the iteration was at an await
    nCreate,            \* createThresholdConfig calls made so far
    nSamples,           \* non-empty transaction samples served so far
    transaction,        \* the transaction handed to the pipeline
    hour,               \* the hour of the clock at the evaluation (getHours())
    analysis,           \* what analyzeFraud returned for it (null before the call)
    assessment,         \* the fraudScore and riskLevel passed on with the transaction
    zone,               \* the host's offset from UTC, in hours
    events,             \* what identifyCompllianceViolations returned (unset before)
    logPos,             \* position of logComplianceEvent's loop over events (0: not running)
    compliance_events,  \* the rows of table compliance_events, in insertion order
    now,                \* the clock, in ticks
    selected,           \* what getComplianceMetrics' select returned
    complianceMetrics,  \* what getComplianceMetrics returned (null before the call)
    explanation,        \* what explainPrediction returned (null before the call)
    ingestor,           \* the running DataIngestor call: its arguments, locals and result
    upload,             \* the running handleFileUpload or handleManualSubmit: input, locals, what it delivered
    dashboard,          \* position of the dashboard's loadExplanations, loads made, whether the last save failed
    explainability_logs,\* the rows of table explainability_logs, in insertion order
    feature_importance, \* the rows of table feature_importance, in insertion order
    updaters            \* the running updateFeatureImportance calls: position and what each read

\* The variables of the pipeline around the Threshold Store.
pipelineVars == <<transaction, hour, analysis, assessment, zone, events,
                  logPos, compliance_events, now, selected, complianceMetrics>>

\* The variables of the services beside the pipeline: the Explainability
\* Engine, the Data Ingestor, the handlers that persist what they computed,
\* and the feature-importance counter.
persistVars == <<upload, dashboard, explainability_logs>>
importanceVars == <<feature_importance, updaters>>
serviceVars == <<explanation, ingestor, persistVars, importanceVars>>

\* The variables of the Threshold Store.
storeVars == <<thresholdCache, pc, iter, config, metrics,
               adjustment, adjustments, failed, observed, nCreate, nSamples>>

vars == <<thresholdCache, pc, iter, config, metrics,
          adjustment, adjustments, failed, observed, nCreate, nSamples,
          pipelineVars, serviceVars>>

(***************************************************************************)
(* Bounds of the model.                                                    *)
(***************************************************************************)
MaxCreate == 1
MaxSamples == 2
MaxEvents == 2
MaxTime == 3

(***************************************************************************)
(* Program constants.                                                      *)
(***************************************************************************)
FalsePositiveLimit == 1500
FalseNegativeLimit == 1000
TargetRate == 1000
EmitGate == 1000
ApplyGate == 20000
MediumBand == 100000
HighBand == 250000
RateScale == 10000

\* An absent optional string argument, and the null adjustment.
undefined == "<undefined>"
null == [null |-> TRUE]

\* A list-valued variable before its first assignment.
unset == << null >>

Abs(x) == IF x < 0 THEN -x ELSE x
Max(a, b) == IF a >= b THEN a ELSE b
Min(a, b) == IF a <= b THEN a ELSE b

(***************************************************************************)
(* String.prototype.toLowerCase on the category strings of the model.      *)
(***************************************************************************)
toLowerCase(s) ==
    CASE s = "Luxury" -> "luxury"
      [] s = "LUXURY" -> "luxury"
      [] s = "CRYPTO" -> "crypto"
      [] s = "Crypto" -> "crypto"
      [] s = "Default" -> "default"
      [] s = "Online Gambling" -> "online gambling"
      [] OTHER -> s

ThresholdConfig(c, t, lo, hi, rate, n) ==
    [merchantCategory |-> c, fraudThreshold |-> t, dynamicAdjustment |-> TRUE,
     minThreshold |-> lo, maxThreshold |-> hi, adaptationRate |-> rate,
     sampleSizeMinimum |-> n]

defaultThresholds ==
    << ThresholdConfig("grocery", 450000, 350000, 650000, 8, 100),
       ThresholdConfig("online_retail", 500000, 400000, 700000, 10, 150),
       ThresholdConfig("travel_agencies", 550000, 450000, 750000, 12, 80),
       ThresholdConfig("money_transfer", 650000, 550000, 850000, 15, 50),
       ThresholdConfig("crypto", 700000, 600000, 900000, 15, 60),
       ThresholdConfig("entertainment", 480000, 380000, 680000, 9, 120),
       ThresholdConfig("default", 500000, 350000, 750000, 10, 100) >>

(***************************************************************************)
(* Map<string, ThresholdConfig>: a sequence of [key, value] entries in     *)
(* insertion order; set() on a present key keeps the entry's position.     *)
(***************************************************************************)
MapKeys(m) == {m[i].key : i \in 1..Len(m)}
MapHas(m, k) == k \in MapKeys(m)
MapIndex(m, k) == CHOOSE i \in 1..Len(m) : m[i].key = k
MapGet(m, k) == m[MapIndex(m, k)].value
MapSet(m, k, v) ==
    IF MapHas(m, k)
    THEN [m EXCEPT ![MapIndex(m, k)] = [key |-> k, value |-> v]]
    ELSE Append(m, [key |-> k, value |-> v])

RECURSIVE SetAll(_, _)
SetAll(m, cfgs) ==
    IF cfgs = <<>> THEN m
    ELSE SetAll(MapSet(m, Head(cfgs).merchantCategory, Head(cfgs)), Tail(cfgs))

initializeDefaultThresholds == SetAll(<<>>, defaultThresholds)

(***************************************************************************)
(* Rows of the transactions table read by calculateCategoryMetrics, kept   *)
(* as groups of equal rows: count rows with this fraud_score and           *)
(* is_fraudulent.  A response is [error, data]; the client sets data to    *)
(* null exactly when it sets error, and data is then not looked at.        *)
(***************************************************************************)
Rows(score, actual, n) == [fraud_score |-> score, is_fraudulent |-> actual, count |-> n]

StableSample == << Rows(100000, FALSE, 160), Rows(950000, TRUE, 40) >>
HighFPSample == << Rows(950000, FALSE, 160), Rows(950000, TRUE, 40) >>
MildFPSample == << Rows(100000, FALSE, 120), Rows(950000, FALSE, 40), Rows(950000, TRUE, 40) >>
HighFNSample == << Rows(100000, FALSE, 160), Rows(100000, TRUE, 20), Rows(950000, TRUE, 20) >>
SmallSample == << Rows(100000, FALSE, 20), Rows(950000, FALSE, 20) >>
\* As many rows as the sampleSizeMinimum of crypto, all scored above every
\* threshold.
BoundarySample == << Rows(950000, FALSE, 48), Rows(950000, TRUE, 12) >>

Samples == {StableSample, HighFPSample, MildFPSample, HighFNSample, SmallSample,
            BoundarySample}

\* The merchant categories the transactions table holds rows for in the
\* trailing 30 days; the read for any other category returns no rows.
TransactionCategories == {"grocery", "crypto"}

Responses ==
    {[error |-> TRUE, data |-> <<>>], [error |-> FALSE, data |-> <<>>]}
    \cup {[error |-> FALSE, data |-> d] : d \in Samples}

RECURSIVE CountRows(_, _, _, _)
CountRows(data, threshold, predicted, actual) ==
    IF data = <<>> THEN 0
    ELSE (IF (Head(data).fraud_score > threshold) = predicted
             /\ Head(data).is_fraudulent = actual
          THEN Head(data).count ELSE 0)
         + CountRows(Tail(data), threshold, predicted, actual)

(***************************************************************************)
(* Reads of the store.                                                     *)
(***************************************************************************)
Truthy(s) == s # undefined /\ s # ""

getFullConfig(merchantCategory) ==
    IF Truthy(merchantCategory)
       /\ MapHas(thresholdCache, toLowerCase(merchantCategory))
    THEN MapGet(thresholdCache, toLowerCase(merchantCategory))
    ELSE MapGet(thresholdCache, "default")

getThreshold(merchantCategory) ==
    LET cfg == IF Truthy(merchantCategory)
                  /\ MapHas(thresholdCache, toLowerCase(merchantCategory))
               THEN MapGet(thresholdCache, toLowerCase(merchantCategory))
               ELSE MapGet(thresholdCache, "default")
    IN cfg.fraudThreshold

isTransactionFraudulent(fraudScore, merchantCategory) ==
    fraudScore > getThreshold(merchantCategory)

\* calculateRiskLevel with the first test strict: a score on the threshold is
\* no longer low.
calculateRiskLevel_strictLow(fraudScore, merchantCategory) ==
    LET threshold == getThreshold(merchantCategory)
        distance == fraudScore - threshold
    IN IF fraudScore < threshold THEN "low"
       ELSE IF distance < MediumBand THEN "medium"
       ELSE IF distance < HighBand THEN "high"
       ELSE "critical"

\* calculateRiskLevel with the band tests inclusive.
calculateRiskLevel_inclusiveBands(fraudScore, merchantCategory) ==
    LET threshold == getThreshold(merchantCategory)
        distance == fraudScore - threshold
    IN IF fraudScore <= threshold THEN "low"
       ELSE IF distance <= MediumBand THEN "medium"
       ELSE IF distance <= HighBand THEN "high"
       ELSE "critical"

calculateRiskLevel(fraudScore, merchantCategory) ==
    LET threshold == getThreshold(merchantCategory)
        distance == fraudScore - threshold
    IN IF fraudScore <= threshold THEN "low"
       ELSE IF distance < MediumBand THEN "medium"
       ELSE IF distance < HighBand THEN "high"
       ELSE "critical"

(***************************************************************************)
(* calculateCategoryMetrics, after its read has returned `response`.       *)
(***************************************************************************)
calculateCategoryMetrics(merchantCategory, response) ==
    IF response.error
    THEN [sampleCount |-> 0, falsePositiveRate |-> 0, falseNegativeRate |-> 0]
    ELSE
      LET threshold == getThreshold(merchantCategory)
          falsePositives == CountRows(response.data, threshold, TRUE, FALSE)
          falseNegatives == CountRows(response.data, threshold, FALSE, TRUE)
          truePositives == CountRows(response.data, threshold, TRUE, TRUE)
          trueNegatives == CountRows(response.data, threshold, FALSE, FALSE)
          totalPositives == truePositives + falseNegatives
          totalNegatives == trueNegatives + falsePositives
      IN [sampleCount |-> totalPositives + totalNegatives,
          falsePositiveRate |->
              IF totalNegatives > 0
              THEN (falsePositives * RateScale) \div totalNegatives ELSE 0,
          falseNegativeRate |->
              IF totalPositives > 0
              THEN (falseNegatives * RateScale) \div totalPositives ELSE 0]

generateAdjustmentReason(m) ==
    IF m.falsePositiveRate > FalsePositiveLimit
    THEN "High false positive rate - increasing threshold"
    ELSE IF m.falseNegativeRate > FalseNegativeLimit
    THEN "High false negative rate - decreasing threshold"
    ELSE "Performance-based adjustment"

\* calculateOptimalThreshold without the clamp into [minThreshold, maxThreshold].
calculateOptimalThreshold_noClamp(m, cfg) ==
    LET increase == cfg.adaptationRate * (m.falsePositiveRate - TargetRate)
        decrease == cfg.adaptationRate * (TargetRate - m.falseNegativeRate)
        raw == IF m.falsePositiveRate > FalsePositiveLimit
               THEN cfg.fraudThreshold + increase
               ELSE IF m.falseNegativeRate > FalseNegativeLimit
               THEN cfg.fraudThreshold - decrease
               ELSE cfg.fraudThreshold
        adjustmentFactor ==
               IF m.falsePositiveRate > FalsePositiveLimit THEN increase
               ELSE IF m.falseNegativeRate > FalseNegativeLimit THEN -decrease
               ELSE 0
    IN IF Abs(adjustmentFactor) > EmitGate
       THEN [merchantCategory |-> cfg.merchantCategory,
             oldThreshold |-> cfg.fraudThreshold,
             newThreshold |-> raw,
             reason |-> generateAdjustmentReason(m),
             adjustmentFactor |-> adjustmentFactor]
       ELSE null

\* calculateOptimalThreshold measuring the increase from the 0.15 limit instead
\* of the 0.10 target.
calculateOptimalThreshold_fromLimit(m, cfg) ==
    LET increase == cfg.adaptationRate * (m.falsePositiveRate - FalsePositiveLimit)
        decrease == cfg.adaptationRate * (TargetRate - m.falseNegativeRate)
        raw == IF m.falsePositiveRate > FalsePositiveLimit
               THEN cfg.fraudThreshold + increase
               ELSE IF m.falseNegativeRate > FalseNegativeLimit
               THEN cfg.fraudThreshold - decrease
               ELSE cfg.fraudThreshold
        adjustmentFactor ==
               IF m.falsePositiveRate > FalsePositiveLimit THEN increase
               ELSE IF m.falseNegativeRate > FalseNegativeLimit THEN -decrease
               ELSE 0
        newThreshold == Max(cfg.minThreshold, Min(raw, cfg.maxThreshold))
    IN IF Abs(adjustmentFactor) > EmitGate
       THEN [merchantCategory |-> cfg.merchantCategory,
             oldThreshold |-> cfg.fraudThreshold,
             newThreshold |-> newThreshold,
             reason |-> generateAdjustmentReason(m),
             adjustmentFactor |-> adjustmentFactor]
       ELSE null

\* calculateOptimalThreshold with the false-negative test the wrong way round.
calculateOptimalThreshold_flippedTest(m, cfg) ==
    LET increase == cfg.adaptationRate * (m.falsePositiveRate - TargetRate)
        decrease == cfg.adaptationRate * (TargetRate - m.falseNegativeRate)
        raw == IF m.falsePositiveRate > FalsePositiveLimit
               THEN cfg.fraudThreshold + increase
               ELSE IF m.falseNegativeRate < FalseNegativeLimit
               THEN cfg.fraudThreshold - decrease
               ELSE cfg.fraudThreshold
        adjustmentFactor ==
               IF m.falsePositiveRate > FalsePositiveLimit THEN increase
               ELSE IF m.falseNegativeRate < FalseNegativeLimit THEN -decrease
               ELSE 0
        newThreshold == Max(cfg.minThreshold, Min(raw, cfg.maxThreshold))
    IN IF Abs(adjustmentFactor) > EmitGate
       THEN [merchantCategory |-> cfg.merchantCategory,
             oldThreshold |-> cfg.fraudThreshold,
             newThreshold |-> newThreshold,
             reason |-> generateAdjustmentReason(m),
             adjustmentFactor |-> adjustmentFactor]
       ELSE null

calculateOptimalThreshold(m, cfg) ==
    LET increase == cfg.adaptationRate * (m.falsePositiveRate - TargetRate)
        decrease == cfg.adaptationRate * (TargetRate - m.falseNegativeRate)
        raw == IF m.falsePositiveRate > FalsePositiveLimit
               THEN cfg.fraudThreshold + increase
               ELSE IF m.falseNegativeRate > FalseNegativeLimit
               THEN cfg.fraudThreshold - decrease
               ELSE cfg.fraudThreshold
        adjustmentFactor ==
               IF m.falsePositiveRate > FalsePositiveLimit THEN increase
               ELSE IF m.falseNegativeRate > FalseNegativeLimit THEN -decrease
               ELSE 0
        newThreshold == Max(cfg.minThreshold, Min(raw, cfg.maxThreshold))
    IN IF Abs(adjustmentFactor) > EmitGate
       THEN [merchantCategory |-> cfg.merchantCategory,
             oldThreshold |-> cfg.fraudThreshold,
             newThreshold |-> newThreshold,
             reason |-> generateAdjustmentReason(m),
             adjustmentFactor |-> adjustmentFactor]
       ELSE null

(***************************************************************************)
(* The persisted table threshold_configs is the external record store's.   *)
(* Any client may insert and update its rows, so what a select returns is  *)
(* an input: an error, or one of these tables (rows in the order           *)
(* returned, with the field names loadThresholdsFromDatabase maps them to).*)
(***************************************************************************)
PersistedRow == ThresholdConfig("crypto", 650000, 600000, 700000, 15, 60)

PersistedTables == { <<>>, << PersistedRow >> }

LoadResponses ==
    {[error |-> TRUE, data |-> <<>>]}
    \cup {[error |-> FALSE, data |-> t] : t \in PersistedTables}

(***************************************************************************)
(* The configurations createThresholdConfig is called with.                *)
(***************************************************************************)
NewConfigs ==
    { ThresholdConfig("Luxury", 700000, 550000, 850000, 10, 50),
      ThresholdConfig("grocery", 300000, 200000, 400000, 8, 100) }

\* The services around the pipeline before any call.
ServicesIdle ==
    /\ explanation = null
    /\ ingestor = null
    /\ upload = null
    /\ dashboard = [pc |-> "idle", loads |-> 0, error |-> FALSE]
    /\ explainability_logs = << >>
    /\ feature_importance = << >>
    /\ updaters = << >>

\* The Threshold Store after construction, no operation running.
InitThresholdStore ==
    /\ thresholdCache = initializeDefaultThresholds
    /\ pc = "idle"
    /\ iter = 0
    /\ config = null
    /\ metrics = null
    /\ adjustment = null
    /\ adjustments = <<>>
    /\ failed = FALSE
    /\ observed = null
    /\ nCreate = 0
    /\ nSamples = 0

Init ==
    /\ InitThresholdStore
    /\ transaction = null
    /\ hour = 0
    /\ analysis = null
    /\ assessment = null
    /\ zone = 0
    /\ events = unset
    /\ logPos = 0
    /\ compliance_events = <<>>
    /\ now = 0
    /\ selected = null
    /\ complianceMetrics = null
    /\ ServicesIdle

(***************************************************************************)
(* loadThresholdsFromDatabase, at the return of its select.                *)
(***************************************************************************)
\* loadThresholdsFromDatabase building the cache anew from the rows read.
loadThresholdsFromDatabase_replace(response) ==
    /\ pc # "next"
    /\ thresholdCache' = IF response.error THEN thresholdCache
                         ELSE SetAll(<<>>, response.data)
    /\ UNCHANGED <<pc, iter, config, metrics, adjustment, adjustments, failed,
                   observed, nCreate, nSamples, pipelineVars, serviceVars>>

loadThresholdsFromDatabase(response) ==
    /\ pc # "next"
    /\ thresholdCache' = IF response.error THEN thresholdCache
                         ELSE SetAll(thresholdCache, response.data)
    /\ UNCHANGED <<pc, iter, config, metrics, adjustment, adjustments, failed,
                   observed, nCreate, nSamples, pipelineVars, serviceVars>>

(***************************************************************************)
(* createThresholdConfig: the cache write; the outcome of the insert that  *)
(* follows is only logged.                                                 *)
(***************************************************************************)
createThresholdConfig(cfg) ==
    /\ pc # "next"
    /\ nCreate < MaxCreate
    /\ nCreate' = nCreate + 1
    /\ thresholdCache' = MapSet(thresholdCache, cfg.merchantCategory, cfg)
    /\ UNCHANGED <<pc, iter, config, metrics, adjustment, adjustments, failed,
                   observed, nSamples, pipelineVars, serviceVars>>

(***************************************************************************)
(* adjustThresholdsBasedOnPerformance.  The for-of loop over the Map is    *)
(* live: LoopHead(i) is iterator.next() for entry i, followed by the call  *)
(* of calculateCategoryMetrics up to its await.                            *)
(***************************************************************************)
LoopHead(i) ==
    /\ metrics' = null
    /\ adjustment' = null
    /\ failed' = FALSE
    /\ observed' = null
    /\ IF i <= Len(thresholdCache)
       THEN /\ pc' = "metrics"
            /\ iter' = i
            /\ config' = thresholdCache[i].value
       ELSE /\ pc' = "idle"
            /\ iter' = 0
            /\ config' = null

adjustThresholdsBasedOnPerformance ==
    /\ pc = "idle"
    /\ adjustments' = <<>>
    /\ LoopHead(1)
    /\ UNCHANGED <<thresholdCache, nCreate, nSamples, pipelineVars, serviceVars>>

\* updateThreshold storing a configuration it builds from the fallback entry
\* and the new threshold, in place of the segment's own with one field changed.
updateThreshold_fromDefault(cache, merchantCategory, newThreshold) ==
    IF ~MapHas(cache, merchantCategory) THEN cache
    ELSE MapSet(cache, merchantCategory,
                [MapGet(cache, "default") EXCEPT !.merchantCategory = merchantCategory,
                                                 !.fraudThreshold = newThreshold])

\* updateThreshold up to its await: the write into the cache.
updateThreshold(cache, merchantCategory, newThreshold) ==
    IF ~MapHas(cache, merchantCategory) THEN cache
    ELSE MapSet(cache, merchantCategory,
                [MapGet(cache, merchantCategory) EXCEPT !.fraudThreshold = newThreshold])

\* Applies without the 0.02 gate: every adjustment computed is applied.
Applies_ungated(adj) == adj # null

\* The test that gates the push onto adjustments and the call of updateThreshold.

Applies(adj) == adj # null /\ Abs(adj.adjustmentFactor) > ApplyGate

\* The loop body skipping a segment whose sample count only equals its
\* sampleSizeMinimum.
MetricsReturn_strictGate(response) ==
    /\ pc = "metrics"
    /\ response.data # <<>> =>
           /\ nSamples < MaxSamples
           /\ thresholdCache[iter].key \in TransactionCategories
    /\ nSamples' = IF response.data # <<>> THEN nSamples + 1 ELSE nSamples
    /\ LET category == thresholdCache[iter].key
           m == calculateCategoryMetrics(category, response)
           adj == calculateOptimalThreshold(m, config)
       IN /\ metrics' = m
          /\ failed' = response.error
          /\ IF m.sampleCount <= config.sampleSizeMinimum
             THEN /\ adjustment' = null
                  /\ pc' = "next"
                  /\ UNCHANGED <<thresholdCache, adjustments>>
             ELSE /\ adjustment' = adj
                  /\ IF Applies(adj)
                     THEN /\ adjustments' = Append(adjustments, adj)
                          /\ thresholdCache' =
                                updateThreshold(thresholdCache, category, adj.newThreshold)
                          /\ pc' = "update"
                     ELSE /\ pc' = "next"
                          /\ UNCHANGED <<thresholdCache, adjustments>>
    /\ UNCHANGED <<iter, config, observed, nCreate, pipelineVars, serviceVars>>

\* The loop body from the return of the transactions read to the next await
\* (or to the end of the iteration).
MetricsReturn(response) ==
    /\ pc = "metrics"
    /\ response.data # <<>> =>
           /\ nSamples < MaxSamples
           /\ thresholdCache[iter].key \in TransactionCategories
    /\ nSamples' = IF response.data # <<>> THEN nSamples + 1 ELSE nSamples
    /\ LET category == thresholdCache[iter].key
           m == calculateCategoryMetrics(category, response)
           adj == calculateOptimalThreshold(m, config)
       IN /\ metrics' = m
          /\ failed' = response.error
          /\ IF m.sampleCount < config.sampleSizeMinimum
             THEN /\ adjustment' = null
                  /\ pc' = "next"
                  /\ UNCHANGED <<thresholdCache, adjustments>>
             ELSE /\ adjustment' = adj
                  /\ IF Applies(adj)
                     THEN /\ adjustments' = Append(adjustments, adj)
                          /\ thresholdCache' =
                                updateThreshold(thresholdCache, category, adj.newThreshold)
                          /\ pc' = "update"
                     ELSE /\ pc' = "next"
                          /\ UNCHANGED <<thresholdCache, adjustments>>
    /\ UNCHANGED <<iter, config, observed, nCreate, pipelineVars, serviceVars>>

\* updateThreshold rejecting on an error of its update: the rejection ends
\* adjustThresholdsBasedOnPerformance at the iteration it is in.
UpdateReturn_throws(error) ==
    /\ pc = "update"
    /\ failed' = error
    /\ IF error
       THEN pc' = "idle" /\ iter' = 0 /\ config' = null
       ELSE pc' = "next" /\ UNCHANGED <<iter, config>>
    /\ UNCHANGED <<thresholdCache, metrics, adjustment, adjustments,
                   observed, nCreate, nSamples, pipelineVars, serviceVars>>

\* The return of updateThreshold's update of the table: an error is only logged.
UpdateReturn(error) ==
    /\ pc = "update"
    /\ pc' = "next"
    /\ failed' = error
    /\ UNCHANGED <<thresholdCache, iter, config, metrics, adjustment, adjustments,
                   observed, nCreate, nSamples, pipelineVars, serviceVars>>

\* The end of an iteration: on to the next entry, or return adjustments.
NextIteration ==
    /\ pc = "next"
    /\ LoopHead(iter + 1)
    /\ UNCHANGED <<thresholdCache, adjustments, nCreate, nSamples, pipelineVars, serviceVars>>

\* The categories callers read with while a recalibration is running.
ReadCategories == {"grocery", "CRYPTO"}

\* A caller's reads of one category, run while adjustThresholdsBasedOnPerformance
\* is suspended at an await: getFullConfig, getThreshold and
\* isTransactionFraudulent for a score on the configuration's upper bound.
Read(merchantCategory) ==
    /\ pc \in {"metrics", "update"}
    /\ observed' =
          [merchantCategory |-> merchantCategory,
           config |-> getFullConfig(merchantCategory),
           threshold |-> getThreshold(merchantCategory),
           fraudulent |-> isTransactionFraudulent(
                              getFullConfig(merchantCategory).maxThreshold,
                              merchantCategory)]
    /\ UNCHANGED <<thresholdCache, pc, iter, config, metrics, adjustment,
                   adjustments, failed, nCreate, nSamples, pipelineVars, serviceVars>>

Recalibrate ==
    \/ adjustThresholdsBasedOnPerformance
    \/ \E response \in Responses : MetricsReturn(response)
    \/ \E error \in BOOLEAN : UpdateReturn(error)
    \/ NextIteration

Next ==
    \/ Recalibrate
    \/ \E response \in LoadResponses : loadThresholdsFromDatabase(response)
    \/ \E cfg \in NewConfigs : createThresholdConfig(cfg)

Spec == Init /\ [][Next]_vars

\* The store with recalibration as its only operation.
SpecRecalibrate == Init /\ [][Recalibrate]_vars

\* Recalibration interleaved with callers' reads.
NextRead ==
    \/ Recalibrate
    \/ \E merchantCategory \in ReadCategories : Read(merchantCategory)

SpecRead == Init /\ [][NextRead]_vars

(***************************************************************************)
(* Fraud Estimator: analyzeFraud (components/TransactionDetail.tsx).       *)
(*                                                                         *)
(* Amounts are decimals with two places, kept as integers counting cents   *)
(* (45.99 is 4599).  A JavaScript number is a record: NaN, or a value.     *)
(* A text built by join is kept as the sequence of its pieces, separators  *)
(* included; includes on it asks for a piece.                              *)
(***************************************************************************)
AmountLimit == 500000
VeryHighAmountLimit == 1000000
AmountWeight == 300000
TimingWeight == 250000
CategoryWeight == 250000
VeryHighAmountWeight == 200000
NightEnd == 4
ScoreCap == 1000000
FraudCutoff == 500000

NaN == [nan |-> TRUE, v |-> 0]
Number(v) == [nan |-> FALSE, v |-> v]

\* a > b for a number a and a literal b: false when a is NaN.
Gt(a, b) == ~a.nan /\ a.v > b

\* parseFloat of the amounts the model submits: the longest numeric prefix,
\* NaN when there is none.
parseFloat(s) ==
    CASE s = "45.99" -> Number(4599)
      [] s = "5000" -> Number(500000)
      [] s = "5000.01" -> Number(500001)
      [] s = "8750.00" -> Number(875000)
      [] s = "10000" -> Number(1000000)
      [] s = "10000.01" -> Number(1000001)
      [] s = "12,500.00" -> Number(1200)
      [] s = "15000" -> Number(1500000)
      [] s = "50000" -> Number(5000000)
      [] s = "50000.01" -> Number(5000001)
      [] s = "60000" -> Number(6000000)
      [] s = "-20" -> Number(-2000)
      [] OTHER -> NaN

\* String.prototype.includes over the lower-cased categories of the model.
includes(s, sub) ==
    CASE sub = "gambling" -> s \in {"gambling", "online gambling"}
      [] sub = "luxury" -> s \in {"luxury", "luxury_goods"}
      [] sub = "crypto" -> s \in {"crypto", "cryptocurrency"}
      [] OTHER -> s = sub

highRiskCategories == {"gambling", "luxury", "crypto"}

\* Array.prototype.join.
RECURSIVE join(_, _)
join(pieces, sep) ==
    IF pieces = <<>> THEN <<>>
    ELSE IF Len(pieces) = 1 THEN pieces
    ELSE <<Head(pieces), sep>> \o join(Tail(pieces), sep)

\* analyzeFraud comparing the category as written, without toLowerCase.
analyzeFraud_caseSensitive(txn, clock) ==
    LET amount == parseFloat(txn.amount)
        r1 == Gt(amount, AmountLimit)
        r2 == clock >= 0 /\ clock <= NightEnd
        r3 == \E cat \in highRiskCategories :
                  /\ txn.merchant_category # undefined
                  /\ includes(txn.merchant_category, cat)
        r4 == Gt(amount, VeryHighAmountLimit)
        fraudScore == (IF r1 THEN AmountWeight ELSE 0) + (IF r2 THEN TimingWeight ELSE 0)
                      + (IF r3 THEN CategoryWeight ELSE 0)
                      + (IF r4 THEN VeryHighAmountWeight ELSE 0)
        reasons == (IF r1 THEN <<"Unusual transaction amount">> ELSE <<>>)
                   \o (IF r2 THEN <<"Abnormal transaction timing">> ELSE <<>>)
                   \o (IF r3 THEN <<"High-risk merchant category">> ELSE <<>>)
                   \o (IF r4 THEN <<"Very high transaction value">> ELSE <<>>)
    IN [fraud_score |-> Min(fraudScore, ScoreCap),
        is_fraudulent |-> fraudScore > FraudCutoff,
        detection_reason |-> IF join(reasons, ", ") # <<>> THEN join(reasons, ", ")
                             ELSE <<"Normal transaction pattern">>]

\* analyzeFraud with the cutoff inclusive: a score of 0.5 is flagged.
analyzeFraud_inclusiveCutoff(txn, clock) ==
    LET amount == parseFloat(txn.amount)
        r1 == Gt(amount, AmountLimit)
        r2 == clock >= 0 /\ clock <= NightEnd
        r3 == \E cat \in highRiskCategories :
                  /\ txn.merchant_category # undefined
                  /\ includes(toLowerCase(txn.merchant_category), cat)
        r4 == Gt(amount, VeryHighAmountLimit)
        fraudScore == (IF r1 THEN AmountWeight ELSE 0) + (IF r2 THEN TimingWeight ELSE 0)
                      + (IF r3 THEN CategoryWeight ELSE 0)
                      + (IF r4 THEN VeryHighAmountWeight ELSE 0)
        reasons == (IF r1 THEN <<"Unusual transaction amount">> ELSE <<>>)
                   \o (IF r2 THEN <<"Abnormal transaction timing">> ELSE <<>>)
                   \o (IF r3 THEN <<"High-risk merchant category">> ELSE <<>>)
                   \o (IF r4 THEN <<"Very high transaction value">> ELSE <<>>)
    IN [fraud_score |-> Min(fraudScore, ScoreCap),
        is_fraudulent |-> fraudScore >= FraudCutoff,
        detection_reason |-> IF join(reasons, ", ") # <<>> THEN join(reasons, ", ")
                             ELSE <<"Normal transaction pattern">>]

\* analyzeFraud weighting the timing rule as the amount rule (0.30).
analyzeFraud_timingAsAmount(txn, clock) ==
    LET amount == parseFloat(txn.amount)
        r1 == Gt(amount, AmountLimit)
        r2 == clock >= 0 /\ clock <= NightEnd
        r3 == \E cat \in highRiskCategories :
                  /\ txn.merchant_category # undefined
                  /\ includes(toLowerCase(txn.merchant_category), cat)
        r4 == Gt(amount, VeryHighAmountLimit)
        fraudScore == (IF r1 THEN AmountWeight ELSE 0) + (IF r2 THEN AmountWeight ELSE 0)
                      + (IF r3 THEN CategoryWeight ELSE 0)
                      + (IF r4 THEN VeryHighAmountWeight ELSE 0)
        reasons == (IF r1 THEN <<"Unusual transaction amount">> ELSE <<>>)
                   \o (IF r2 THEN <<"Abnormal transaction timing">> ELSE <<>>)
                   \o (IF r3 THEN <<"High-risk merchant category">> ELSE <<>>)
                   \o (IF r4 THEN <<"Very high transaction value">> ELSE <<>>)
    IN [fraud_score |-> Min(fraudScore, ScoreCap),
        is_fraudulent |-> fraudScore > FraudCutoff,
        detection_reason |-> IF join(reasons, ", ") # <<>> THEN join(reasons, ", ")
                             ELSE <<"Normal transaction pattern">>]

\* analyzeFraud with the amount test inclusive: 5000 itself counts as unusual.
analyzeFraud_inclusiveAmount(txn, clock) ==
    LET amount == parseFloat(txn.amount)
        r1 == ~amount.nan /\ amount.v >= AmountLimit
        r2 == clock >= 0 /\ clock <= NightEnd
        r3 == \E cat \in highRiskCategories :
                  /\ txn.merchant_category # undefined
                  /\ includes(toLowerCase(txn.merchant_category), cat)
        r4 == Gt(amount, VeryHighAmountLimit)
        fraudScore == (IF r1 THEN AmountWeight ELSE 0) + (IF r2 THEN TimingWeight ELSE 0)
                      + (IF r3 THEN CategoryWeight ELSE 0)
                      + (IF r4 THEN VeryHighAmountWeight ELSE 0)
        reasons == (IF r1 THEN <<"Unusual transaction amount">> ELSE <<>>)
                   \o (IF r2 THEN <<"Abnormal transaction timing">> ELSE <<>>)
                   \o (IF r3 THEN <<"High-risk merchant category">> ELSE <<>>)
                   \o (IF r4 THEN <<"Very high transaction value">> ELSE <<>>)
    IN [fraud_score |-> Min(fraudScore, ScoreCap),
        is_fraudulent |-> fraudScore > FraudCutoff,
        detection_reason |-> IF join(reasons, ", ") # <<>> THEN join(reasons, ", ")
                             ELSE <<"Normal transaction pattern">>]

\* analyzeFraud(transaction), with the clock it reads as a second argument.
analyzeFraud(txn, clock) ==
    LET amount == parseFloat(txn.amount)
        r1 == Gt(amount, AmountLimit)
        r2 == clock >= 0 /\ clock <= NightEnd
        r3 == \E cat \in highRiskCategories :
                  /\ txn.merchant_category # undefined
                  /\ includes(toLowerCase(txn.merchant_category), cat)
        r4 == Gt(amount, VeryHighAmountLimit)
        fraudScore == (IF r1 THEN AmountWeight ELSE 0) + (IF r2 THEN TimingWeight ELSE 0)
                      + (IF r3 THEN CategoryWeight ELSE 0)
                      + (IF r4 THEN VeryHighAmountWeight ELSE 0)
        reasons == (IF r1 THEN <<"Unusual transaction amount">> ELSE <<>>)
                   \o (IF r2 THEN <<"Abnormal transaction timing">> ELSE <<>>)
                   \o (IF r3 THEN <<"High-risk merchant category">> ELSE <<>>)
                   \o (IF r4 THEN <<"Very high transaction value">> ELSE <<>>)
    IN [fraud_score |-> Min(fraudScore, ScoreCap),
        is_fraudulent |-> fraudScore > FraudCutoff,
        detection_reason |-> IF join(reasons, ", ") # <<>> THEN join(reasons, ", ")
                             ELSE <<"Normal transaction pattern">>]

\* The transactions submitted: amounts as entered (numeric, with a thousands
\* separator, negative, not a number, empty) and categories as entered.
RawAmounts ==
    {"45.99", "5000", "5000.01", "8750.00", "10000", "10000.01",
     "12,500.00", "60000", "-20", "abc", ""}
Categories ==
    {undefined, "", "retail", "grocery", "gambling", "Online Gambling",
     "LUXURY", "luxury_goods", "Crypto", "cryptocurrency"}
Hours == 0..23

Submitted == [amount : RawAmounts, merchant_category : Categories]

InitAnalyze ==
    /\ InitThresholdStore
    /\ transaction \in Submitted
    /\ hour \in Hours
    /\ analysis = null
    /\ assessment = null
    /\ zone = 0
    /\ events = unset
    /\ logPos = 0
    /\ compliance_events = <<>>
    /\ now = 0
    /\ selected = null
    /\ complianceMetrics = null
    /\ ServicesIdle

AnalyzeFraud ==
    /\ analysis = null
    /\ analysis' = analyzeFraud(transaction, hour)
    /\ UNCHANGED <<thresholdCache, pc, iter, config, metrics, adjustment,
                   adjustments, failed, observed, nCreate, nSamples,
                   transaction, hour, assessment, zone, events,
                   logPos, compliance_events, now, selected, complianceMetrics, serviceVars>>

SpecAnalyze == InitAnalyze /\ [][AnalyzeFraud]_vars

(***************************************************************************)
(* Compliance Classifier: ComplianceTracker.identifyCompllianceViolations  *)
(* (services/complianceTracking.ts).  Each `if` of the function is an      *)
(* operator giving the events it pushes, none or one.                      *)
(***************************************************************************)
ComplianceFraudLimit == 700000
HighValueLimit == 1000000
CriticalValueLimit == 5000000
BusinessOpen == 6
BusinessClose == 23

\* a < b for a number a and a literal b: false when a is NaN.
Lt(a, b) == ~a.nan /\ a.v < b

\* x || 0 for a number x.
OrZero(x) == IF x.nan \/ x.v = 0 THEN Number(0) ELSE x

\* The UTC hour written in the ISO timestamps of the model.
UTCHour(timestamp) ==
    CASE timestamp = "2024-03-10T00:00:00Z" -> 0
      [] timestamp = "2024-03-10T05:59:00Z" -> 5
      [] timestamp = "2024-03-10T06:00:00Z" -> 6
      [] timestamp = "2024-03-10T14:30:00Z" -> 14
      [] timestamp = "2024-03-10T23:59:00Z" -> 23

ValidTimestamps ==
    {"2024-03-10T00:00:00Z", "2024-03-10T05:59:00Z", "2024-03-10T06:00:00Z",
     "2024-03-10T14:30:00Z", "2024-03-10T23:59:00Z"}

\* new Date(timestamp).getHours() on a host `offset` hours from UTC: the local
\* hour, NaN for a timestamp that is absent or does not parse.
getHours(timestamp, offset) ==
    IF timestamp \in ValidTimestamps
    THEN Number((UTCHour(timestamp) + offset + 24) % 24)
    ELSE NaN

fraudDetectionThresholdExceeded(fraudScore) ==
    IF fraudScore > ComplianceFraudLimit
    THEN << [eventType |-> "fraud_detection_threshold_exceeded",
             severity |-> "high",
             complianceStandard |-> "AML-KYC",
             violationDetails |-> [fraudScore |-> fraudScore,
                                   threshold |-> ComplianceFraudLimit],
             resolutionStatus |-> "pending"] >>
    ELSE <<>>

\* The high-value rule with its critical test inclusive: 50000 is critical.
highValueTransaction_inclusiveCritical(amount) ==
    IF Gt(amount, HighValueLimit)
    THEN << [eventType |-> "high_value_transaction",
             severity |-> IF amount.v >= CriticalValueLimit THEN "critical" ELSE "high",
             complianceStandard |-> "AML-KYC",
             violationDetails |-> [amount |-> amount.v, limit |-> HighValueLimit],
             resolutionStatus |-> "pending"] >>
    ELSE <<>>

highValueTransaction(amount) ==
    IF Gt(amount, HighValueLimit)
    THEN << [eventType |-> "high_value_transaction",
             severity |-> IF Gt(amount, CriticalValueLimit) THEN "critical" ELSE "high",
             complianceStandard |-> "AML-KYC",
             violationDetails |-> [amount |-> amount.v, limit |-> HighValueLimit],
             resolutionStatus |-> "pending"] >>
    ELSE <<>>

\* The incomplete-data rule asking for both fields to be missing.
incompleteTransactionData_both(txn) ==
    IF ~Truthy(txn.location) /\ ~Truthy(txn.device_info)
    THEN << [eventType |-> "incomplete_transaction_data",
             severity |-> "medium",
             complianceStandard |-> "PCI-DSS",
             violationDetails |->
                 [missingFields |->
                     (IF ~Truthy(txn.location) THEN <<"location">> ELSE <<>>)
                     \o (IF ~Truthy(txn.device_info) THEN <<"device_info">> ELSE <<>>)],
             resolutionStatus |-> "pending"] >>
    ELSE <<>>

incompleteTransactionData(txn) ==
    IF ~Truthy(txn.location) \/ ~Truthy(txn.device_info)
    THEN << [eventType |-> "incomplete_transaction_data",
             severity |-> "medium",
             complianceStandard |-> "PCI-DSS",
             violationDetails |->
                 [missingFields |->
                     (IF ~Truthy(txn.location) THEN <<"location">> ELSE <<>>)
                     \o (IF ~Truthy(txn.device_info) THEN <<"device_info">> ELSE <<>>)],
             resolutionStatus |-> "pending"] >>
    ELSE <<>>

highRiskTransactionDetected(txn, riskLevel) ==
    IF riskLevel = "critical" \/ riskLevel = "high"
    THEN << [eventType |-> "high_risk_transaction_detected",
             severity |-> IF riskLevel = "critical" THEN "critical" ELSE "high",
             complianceStandard |-> "GDPR",
             violationDetails |-> [riskLevel |-> riskLevel,
                                   merchantCategory |-> txn.merchant_category],
             resolutionStatus |-> "pending"] >>
    ELSE <<>>

unusualTransactionTime(txn, offset) ==
    LET h == getHours(txn.timestamp, offset)
    IN IF Lt(h, BusinessOpen) \/ Gt(h, BusinessClose)
       THEN << [eventType |-> "unusual_transaction_time",
                severity |-> "low",
                complianceStandard |-> "AML-KYC",
                violationDetails |-> [transactionHour |-> h.v],
                resolutionStatus |-> "pending"] >>
       ELSE <<>>

\* identifyCompllianceViolations(transaction, fraudScore, riskLevel), with the
\* host's offset from UTC as a further argument.
identifyCompllianceViolations(txn, fraudScore, riskLevel, offset) ==
    LET amount == OrZero(parseFloat(txn.amount))
    IN fraudDetectionThresholdExceeded(fraudScore)
       \o highValueTransaction(amount)
       \o incompleteTransactionData(txn)
       \o highRiskTransactionDetected(txn, riskLevel)
       \o unusualTransactionTime(txn, offset)

\* The arguments the classifier is called with.
ClassifiedAmounts == {"45.99", "10000", "10000.01", "15000", "50000", "50000.01", "abc"}
Places == {undefined, "", "London, UK"}
Devices == {undefined, "iPhone 13"}
Timestamps == ValidTimestamps \cup {undefined, "yesterday"}
Zones == {-5, 0, 9}
FraudScores == {0, 700000, 700001, 1000000}
RiskLevels == {"low", "medium", "high", "critical"}

Classified ==
    [amount : ClassifiedAmounts, merchant_category : {"unknown"},
     location : Places, device_info : Devices, timestamp : Timestamps]

InitClassify ==
    /\ InitThresholdStore
    /\ transaction \in Classified
    /\ assessment \in [fraudScore : FraudScores, riskLevel : RiskLevels]
    /\ zone \in Zones
    /\ hour = 0
    /\ analysis = null
    /\ events = unset
    /\ logPos = 0
    /\ compliance_events = <<>>
    /\ now = 0
    /\ selected = null
    /\ complianceMetrics = null
    /\ ServicesIdle

IdentifyViolations ==
    /\ events = unset
    /\ events' = identifyCompllianceViolations(transaction, assessment.fraudScore,
                                              assessment.riskLevel, zone)
    /\ UNCHANGED <<thresholdCache, pc, iter, config, metrics, adjustment,
                   adjustments, failed, observed, nCreate, nSamples,
                   transaction, hour, analysis, assessment, zone,
                   logPos, compliance_events, now, selected, complianceMetrics, serviceVars>>

SpecClassify == InitClassify /\ [][IdentifyViolations]_vars

(***************************************************************************)
(* Compliance Log: ComplianceTracker.logComplianceEvent and                *)
(* markEventAsResolved over table compliance_events.  A row's id is its    *)
(* position of insertion; every statement reaching the table takes one     *)
(* tick of the clock.                                                      *)
(***************************************************************************)
\* The calls of logComplianceEvent: a transaction with its score and level.
LoggedCalls ==
    { [transaction |-> [id |-> "t1", amount |-> "60000", merchant_category |-> "crypto",
                        location |-> "London, UK", device_info |-> "iPhone 13",
                        timestamp |-> "2024-03-10T14:30:00Z"],
       assessment |-> [fraudScore |-> 0, riskLevel |-> "low"]],
      [transaction |-> [id |-> "t2", amount |-> "45.99", merchant_category |-> "retail",
                        location |-> undefined, device_info |-> "iPhone 13",
                        timestamp |-> "2024-03-10T14:30:00Z"],
       assessment |-> [fraudScore |-> 700001, riskLevel |-> "low"]],
      [transaction |-> [id |-> "t3", amount |-> "45.99", merchant_category |-> "retail",
                        location |-> "London, UK", device_info |-> "iPhone 13",
                        timestamp |-> "2024-03-10T14:30:00Z"],
       assessment |-> [fraudScore |-> 0, riskLevel |-> "low"]] }

ResolutionNotes == {"reviewed", "false alarm"}

\* The row an insert of logComplianceEvent creates, with the defaults of the table.
InsertedRow(event, txn, rowId, time) ==
    [id |-> rowId,
     event_type |-> event.eventType,
     severity |-> event.severity,
     transaction_id |-> txn.id,
     compliance_standard |-> event.complianceStandard,
     violation_details |-> event.violationDetails,
     resolution_status |-> "pending",
     resolution_notes |-> undefined,
     created_at |-> time,
     resolved_at |-> -1]

\* logComplianceEvent up to its first await.
logComplianceEvent(call) ==
    /\ events = unset
    /\ transaction' = call.transaction
    /\ assessment' = call.assessment
    /\ events' = identifyCompllianceViolations(call.transaction, call.assessment.fraudScore,
                                              call.assessment.riskLevel, zone)
    /\ logPos' = 1
    /\ UNCHANGED <<thresholdCache, pc, iter, config, metrics, adjustment,
                   adjustments, failed, observed, nCreate, nSamples,
                   hour, analysis, zone, compliance_events, now, selected, complianceMetrics, serviceVars>>

\* The return of the insert for events[logPos]: an error is only logged.
InsertReturn(error) ==
    /\ events # unset
    /\ logPos <= Len(events)
    /\ now < MaxTime
    /\ ~error => Len(compliance_events) < MaxEvents
    /\ compliance_events' =
          IF error THEN compliance_events
          ELSE Append(compliance_events,
                      InsertedRow(events[logPos], transaction,
                                  Len(compliance_events) + 1, now))
    /\ logPos' = logPos + 1
    /\ now' = now + 1
    /\ UNCHANGED <<thresholdCache, pc, iter, config, metrics, adjustment,
                   adjustments, failed, observed, nCreate, nSamples,
                   transaction, hour, analysis, assessment, zone, events,
                   selected, complianceMetrics, serviceVars>>

\* The end of logComplianceEvent's loop.
LogReturn ==
    /\ events # unset
    /\ logPos > Len(events)
    /\ events' = unset
    /\ logPos' = 0
    /\ UNCHANGED <<thresholdCache, pc, iter, config, metrics, adjustment,
                   adjustments, failed, observed, nCreate, nSamples,
                   transaction, hour, analysis, assessment, zone,
                   compliance_events, now, selected, complianceMetrics, serviceVars>>

\* The update of markEventAsResolved: every row with the id gets the status,
\* the notes and the time of the call.
ResolveRows(rows, eventId, resolutionNotes, time) ==
    [i \in 1..Len(rows) |->
        IF rows[i].id = eventId
        THEN [rows[i] EXCEPT !.resolution_status = "resolved",
                             !.resolution_notes = resolutionNotes,
                             !.resolved_at = time]
        ELSE rows[i]]

markEventAsResolved(eventId, resolutionNotes, error) ==
    /\ now < MaxTime
    /\ compliance_events' =
          IF error THEN compliance_events
          ELSE ResolveRows(compliance_events, eventId, resolutionNotes, now)
    /\ now' = now + 1
    /\ UNCHANGED <<thresholdCache, pc, iter, config, metrics, adjustment,
                   adjustments, failed, observed, nCreate, nSamples,
                   transaction, hour, analysis, assessment, zone, events, logPos,
                   selected, complianceMetrics, serviceVars>>

NextLog ==
    \/ \E call \in LoggedCalls : logComplianceEvent(call)
    \/ \E error \in BOOLEAN : InsertReturn(error)
    \/ LogReturn
    \/ \E eventId \in 1..(MaxEvents + 1), resolutionNotes \in ResolutionNotes,
          error \in BOOLEAN :
          markEventAsResolved(eventId, resolutionNotes, error)

SpecLog == Init /\ [][NextLog]_vars

(***************************************************************************)
(* Compliance Metrics: ComplianceTracker.getComplianceMetrics.  A quotient *)
(* is kept as the pair of its numerator and denominator; resolution times  *)
(* count hours.                                                            *)
(***************************************************************************)
complianceStandards == <<"PCI-DSS", "GDPR", "AML-KYC", "SOX", "HIPAA", "CCPA">>

Quotient(a, b) == [num |-> a, den |-> b]

\* n rows of compliance_events alike in the columns the metrics read.
EventRows(severity, status, standard, created, resolved, n) ==
    [i \in 1..n |-> [severity |-> severity,
                     resolution_status |-> status,
                     compliance_standard |-> standard,
                     created_at |-> created,
                     resolved_at |-> resolved]]

\* What the select of the last 90 days returns: no data, or rows: pending
\* and resolved critical events, resolved high events with and without a
\* resolution time, and an event under investigation for a standard outside
\* the six.
SelectedEvents ==
    { EventRows("critical", "pending", "AML-KYC", 0, -1, a)
      \o EventRows("critical", "resolved", "GDPR", 0, 5, b)
      \o EventRows("high", "resolved", "PCI-DSS", 0, -1, c)
      \o EventRows("low", "investigating", "ISO-27001", 0, -1, d)
        : a \in 0..4, b \in 0..2, c \in 0..6, d \in 0..1 }

MetricsResponses ==
    {[error |-> TRUE, data |-> <<>>]}
    \cup {[error |-> FALSE, data |-> rows] : rows \in SelectedEvents}

\* The resolution time of a row: 0 without both timestamps (-1 is none).
ResolutionTime(e) ==
    IF e.resolved_at >= 0 /\ e.created_at >= 0
    THEN e.resolved_at - e.created_at ELSE 0

\* allEvents.filter(e => e[field] === val).length
CountWhere(rows, field, val) ==
    Cardinality({i \in 1..Len(rows) : rows[i][field] = val})

\* resolutionTimes.length: the resolved rows with a positive resolution time.
CountTimed(rows) ==
    Cardinality({i \in 1..Len(rows) :
                    rows[i].resolution_status = "resolved" /\ ResolutionTime(rows[i]) > 0})

\* resolutionTimes.reduce((a, b) => a + b, 0): the sum of the positive
\* resolution times of the resolved rows.
RECURSIVE SumOfTimes(_)
SumOfTimes(rows) ==
    IF rows = <<>> THEN 0
    ELSE (IF Head(rows).resolution_status = "resolved" /\ ResolutionTime(Head(rows)) > 0
          THEN ResolutionTime(Head(rows)) ELSE 0)
         + SumOfTimes(Tail(rows))

\* standardCoverage: one entry per standard, in the order of complianceStandards.
RECURSIVE Coverage(_, _)
Coverage(standards, rows) ==
    IF standards = <<>> THEN <<>>
    ELSE << [key |-> Head(standards),
             value |-> CountWhere(rows, "compliance_standard", Head(standards))] >>
         \o Coverage(Tail(standards), rows)

\* getComplianceMetrics counting as unresolved every event that is not resolved.
getComplianceMetrics_notResolved(response) ==
    IF response.error
    THEN [totalEvents |-> 0, criticalEvents |-> 0, unresolvedEvents |-> 0,
          resolutionRate |-> Quotient(0, 1), avgResolutionTime |-> Quotient(0, 1),
          standardCoverage |-> <<>>]
    ELSE LET allEvents == response.data
             resolvedEvents == CountWhere(allEvents, "resolution_status", "resolved")
         IN [totalEvents |-> Len(allEvents),
             criticalEvents |-> CountWhere(allEvents, "severity", "critical"),
             unresolvedEvents |-> Len(allEvents) - resolvedEvents,
             resolutionRate |->
                 IF Len(allEvents) > 0
                 THEN Quotient(resolvedEvents, Len(allEvents))
                 ELSE Quotient(0, 1),
             avgResolutionTime |->
                 IF CountTimed(allEvents) > 0
                 THEN Quotient(SumOfTimes(allEvents), CountTimed(allEvents))
                 ELSE Quotient(0, 1),
             standardCoverage |-> Coverage(complianceStandards, allEvents)]

\* getComplianceMetrics, from the return of its select.
getComplianceMetrics(response) ==
    IF response.error
    THEN [totalEvents |-> 0, criticalEvents |-> 0, unresolvedEvents |-> 0,
          resolutionRate |-> Quotient(0, 1), avgResolutionTime |-> Quotient(0, 1),
          standardCoverage |-> <<>>]
    ELSE LET allEvents == response.data
             resolvedEvents == CountWhere(allEvents, "resolution_status", "resolved")
         IN [totalEvents |-> Len(allEvents),
             criticalEvents |-> CountWhere(allEvents, "severity", "critical"),
             unresolvedEvents |-> CountWhere(allEvents, "resolution_status", "pending"),
             resolutionRate |->
                 IF Len(allEvents) > 0
                 THEN Quotient(resolvedEvents, Len(allEvents))
                 ELSE Quotient(0, 1),
             avgResolutionTime |->
                 IF CountTimed(allEvents) > 0
                 THEN Quotient(SumOfTimes(allEvents), CountTimed(allEvents))
                 ELSE Quotient(0, 1),
             standardCoverage |-> Coverage(complianceStandards, allEvents)]

InitMetrics ==
    /\ InitThresholdStore
    /\ transaction = null
    /\ hour = 0
    /\ analysis = null
    /\ assessment = null
    /\ zone = 0
    /\ events = unset
    /\ logPos = 0
    /\ compliance_events = <<>>
    /\ now = 0
    /\ selected \in MetricsResponses
    /\ complianceMetrics = null
    /\ ServicesIdle

GetComplianceMetrics ==
    /\ complianceMetrics = null
    /\ complianceMetrics' = getComplianceMetrics(selected)
    /\ UNCHANGED <<thresholdCache, pc, iter, config, metrics, adjustment,
                   adjustments, failed, observed, nCreate, nSamples,
                   transaction, hour, analysis, assessment, zone, events,
                   logPos, compliance_events, now, selected, serviceVars>>

SpecMetrics == InitMetrics /\ [][GetComplianceMetrics]_vars

(***************************************************************************)
(* Explainability Engine: class ExplainabilityEngine                       *)
(* (services/explainability.ts).  Sub-scores count millionths, the weights *)
(* they are multiplied with count hundredths, so an importance and the     *)
(* confidence count hundred-millionths (0.15 is 15000000).  Of the result  *)
(* of explainPrediction the model keeps transactionId, modelPrediction,    *)
(* confidence and featureImportance (without the description texts).       *)
(***************************************************************************)
\* String.prototype.startsWith over the addresses of the model.
startsWith(s, prefix) ==
    CASE prefix = "192.168" -> s \in {"192.168.1.100"}
      [] prefix = "10." -> s \in {"10.0.0.5"}
      [] OTHER -> FALSE

\* normalizeScore(value, min, max), all three in millionths; the quotient is
\* exact for the range [0, 1] it is called with.
normalizeScore(value, lo, hi) == (value - lo) * (1000000 \div (hi - lo))

calculateMerchantRiskScore(category) ==
    IF ~Truthy(category) THEN 500000
    ELSE IF \E c \in {"money_transfer", "crypto", "gambling", "dating_services",
                      "travel_agencies"} : includes(toLowerCase(category), c)
    THEN 750000
    ELSE 300000

calculateIpRiskScore(ip) ==
    IF ~Truthy(ip) THEN 600000
    ELSE IF startsWith(ip, "192.168") \/ startsWith(ip, "10.") THEN 100000
    ELSE 400000

calculateTimeScore(timestamp, offset) ==
    LET h == getHours(timestamp, offset)
    IN IF ~h.nan /\ h.v >= 8 /\ h.v <= 20 THEN 200000
       ELSE IF ~h.nan /\ h.v >= 6 /\ h.v <= 23 THEN 400000
       ELSE 800000

\* calculateAmountDeviation of an amount in cents: average 500, maxDeviation
\* 5000, so a cent of deviation is two millionths.
calculateAmountDeviation(amount) ==
    Min(Abs(amount - 50000) * 2, 1000000)

\* Array.prototype.sort with the comparator b.importance - a.importance: a
\* stable sort, largest importance first.
RECURSIVE InsertByImportance(_, _)
InsertByImportance(sorted, e) ==
    IF sorted = <<>> THEN << e >>
    ELSE IF Head(sorted).importance >= e.importance
    THEN << Head(sorted) >> \o InsertByImportance(Tail(sorted), e)
    ELSE << e >> \o sorted

RECURSIVE SortByImportance(_)
SortByImportance(list) ==
    IF list = <<>> THEN <<>>
    ELSE InsertByImportance(SortByImportance(SubSeq(list, 1, Len(list) - 1)),
                            list[Len(list)])

Feature(name, score, weight, positiveAbove) ==
    [feature |-> name,
     importance |-> score * weight,
     impact |-> IF score > positiveAbove THEN "positive" ELSE "negative"]

\* The eight entries in the order they are pushed.
PushedImportance(txn, offset) ==
    LET amount == OrZero(parseFloat(txn.amount)).v
        amountImportance == normalizeScore(amount, 0, 1000000)
        locationScore == IF Truthy(txn.location) THEN 300000 ELSE 700000
        merchantScore == calculateMerchantRiskScore(txn.merchant_category)
        deviceScore == IF Truthy(txn.device_info) THEN 200000 ELSE 800000
        ipScore == calculateIpRiskScore(txn.ip_address)
        timeScore == calculateTimeScore(txn.timestamp, offset)
        frequencyScore == 500000
        deviationScore == calculateAmountDeviation(amount)
    IN << Feature("Transaction Amount", amountImportance, 15, 700000),
          Feature("Location", locationScore, 12, 500000),
          Feature("Merchant Category", merchantScore, 18, 600000),
          Feature("Device", deviceScore, 10, 500000),
          Feature("IP Address", ipScore, 15, 500000),
          Feature("Time Pattern", timeScore, 8, 500000),
          Feature("Frequency", frequencyScore, 12, 600000),
          Feature("Amount Deviation", deviationScore, 10, 600000) >>

\* calculateFeatureImportance returning the entries in the order pushed.
calculateFeatureImportance_unsorted(txn, fraudScore, offset) ==
    PushedImportance(txn, offset)

calculateFeatureImportance(txn, fraudScore, offset) ==
    SortByImportance(PushedImportance(txn, offset))

\* Number.prototype.toFixed(3) read back with parseFloat: the nearest
\* multiple of 0.001, a half away from zero.
toFixed3(x) ==
    IF x >= 0 THEN ((x + 50000) \div 100000) * 100000
    ELSE -(((-x + 50000) \div 100000) * 100000)

RECURSIVE SumImportance(_)
SumImportance(features) ==
    IF features = <<>> THEN 0
    ELSE Head(features).importance + SumImportance(Tail(features))

calculateConfidence(fraudScore, features) ==
    LET featureVariance == SumImportance(features)
        confidence == Min(featureVariance + 30000000, 95000000)
    IN toFixed3(confidence)

\* explainPrediction(transaction, fraudScore), with the host's offset from UTC.
explainPrediction(txn, fraudScore, offset) ==
    LET featureImportance == calculateFeatureImportance(txn, fraudScore, offset)
    IN [transactionId |-> txn.transaction_id,
        modelPrediction |-> fraudScore,
        confidence |-> calculateConfidence(fraudScore, featureImportance),
        featureImportance |-> featureImportance]

\* The transactions explained and the scores they come with.

Explained ==
    [transaction_id : {"TXN001"},
     amount : {"45.99", "5000", "8750.00", "10000", "15000", "60000", "abc", "-20"},
     location : {undefined, "London, UK"},
     merchant_category : {undefined, "retail", "Crypto"},
     device_info : Devices,
     ip_address : {undefined, "192.168.1.100", "45.123.67.89"},
     timestamp : {undefined, "2024-03-10T00:00:00Z", "2024-03-10T14:30:00Z"}]

InitExplain ==
    /\ InitThresholdStore
    /\ transaction \in Explained
    /\ assessment \in [fraudScore : {0, 700001}, riskLevel : {"low"}]
    /\ hour = 0
    /\ analysis = null
    /\ zone = 0
    /\ events = unset
    /\ logPos = 0
    /\ compliance_events = <<>>
    /\ now = 0
    /\ selected = null
    /\ complianceMetrics = null
    /\ ServicesIdle

ExplainPrediction ==
    /\ explanation = null
    /\ explanation' = explainPrediction(transaction, assessment.fraudScore, zone)
    /\ UNCHANGED <<storeVars, pipelineVars, ingestor, persistVars, importanceVars>>

SpecExplain == InitExplain /\ [][ExplainPrediction]_vars

(***************************************************************************)
(* Data Ingestor: class DataIngestor (services/ingest.ts).                 *)
(*                                                                         *)
(* A CSV text is kept as the list of its lines (what split('\n') returns); *)
(* the empty text is the list holding one empty line.  A record is a       *)
(* function from its keys to strings; a key it lacks reads as undefined.   *)
(* A thrown error is kept as its message: validateRecord yields "ok" when  *)
(* it returns and the message of the Error when it throws.  The `duration` *)
(* of a result (two readings of the clock) is left out.  The labels 0, 1,  *)
(* true and false of is_fraudulent are not among the values drawn: every   *)
(* field drawn is a string.                                                *)
(***************************************************************************)
ErrorCap == 10

\* What JavaScript's null is when it is the value of a field.
nullField == "<null>"

\* record[key]
Get(record, key) == IF key \in DOMAIN record THEN record[key] ELSE undefined

\* s.trim(), for the lines and cells drawn.
trim(s) == IF s \in {"", "   "} THEN "" ELSE s

\* Array.prototype.slice(start, end) on a list (indexes from 0).
slice(s, start, end) ==
    LET len == Len(s)
        from == IF start < 0 THEN Max(len + start, 0) ELSE Min(start, len)
        to == IF end < 0 THEN Max(len + end, 0) ELSE Min(end, len)
    IN IF from >= to THEN << >> ELSE SubSeq(s, from + 1, to)

\* parseCSVLine, for the lines drawn: split at the commas outside quotes,
\* the quotes dropped, each cell trimmed.
parseCSVLine(line) ==
    CASE line = "amount,timestamp" -> <<"amount", "timestamp">>
      [] line = "timestamp,amount,is_fraudulent"
            -> <<"timestamp", "amount", "is_fraudulent">>
      [] line = "5000,2024-03-10T14:30:00Z"
            -> <<"5000", "2024-03-10T14:30:00Z">>
      [] line = "abc,2024-03-10T14:30:00Z"
            -> <<"abc", "2024-03-10T14:30:00Z">>
      [] line = "\"12,500.00\", 2024-03-10T14:30:00Z"
            -> <<"12,500.00", "2024-03-10T14:30:00Z">>
      [] line = "5000," -> <<"5000", "">>
      [] line = "5000" -> <<"5000">>
      [] line = "2024-03-10T14:30:00Z,5000,true"
            -> <<"2024-03-10T14:30:00Z", "5000", "true">>
      [] line = "" -> <<"">>
      [] line = "   " -> <<"">>
      [] OTHER -> <<line>>

\* mapToRecord: one key per header; a missing or empty value is null.
mapToRecord(headers, values) ==
    [key \in {headers[j] : j \in 1..Len(headers)} |->
        LET index == CHOOSE j \in 1..Len(headers) :
                        /\ headers[j] = key
                        /\ \A k \in (j + 1)..Len(headers) : headers[k] # key
        IN IF index <= Len(values) /\ values[index] # ""
           THEN values[index] ELSE nullField]

\* !value, for a field
Falsy(value) == value \in {undefined, nullField, ""}

\* validateRecord: "ok", or the message of the error thrown.  Reading a
\* property of null throws a TypeError.
validateRecord(record) ==
    IF record = null
    THEN "Cannot read properties of null (reading 'amount')"
    ELSE IF Falsy(Get(record, "amount")) \/ parseFloat(Get(record, "amount")).nan
    THEN "Invalid or missing amount field"
    ELSE IF Falsy(Get(record, "timestamp"))
    THEN "Missing timestamp field"
    ELSE IF Get(record, "timestamp") \notin ValidTimestamps
    THEN "Invalid timestamp format"
    ELSE IF /\ Get(record, "is_fraudulent") # undefined
            /\ Get(record, "is_fraudulent") \notin {"true", "false"}
    THEN "Invalid is_fraudulent value"
    ELSE "ok"

\* The error messages pushed while records[from..] are validated in order,
\* position k of the list being labelled label[k].
RECURSIVE Caught(_, _, _)
Caught(records, label, k) ==
    IF k > Len(records) THEN << >>
    ELSE LET message == validateRecord(records[k])
         IN (IF message = "ok" THEN << >>
             ELSE << label[k] \o <<message>> >>)
            \o Caught(records, label, k + 1)

\* The result of a loop over `records` whose failures are labelled `label`.
IngestResult(total, records, label) ==
    LET errors == Caught(records, label, 1)
    IN [total |-> total,
        success |-> Len(records) - Len(errors),
        failed |-> Len(errors),
        errors |-> slice(errors, 0, ErrorCap)]

\* ingestFromCSV.  lines[0] of a text without a non-blank line is undefined,
\* and parseCSVLine reads its length outside the try block.
ingestFromCSV(data) ==
    LET lines == SelectSeq(data, LAMBDA line : trim(line) # "")
    IN IF lines = << >>
       THEN [threw |-> "Cannot read properties of undefined (reading 'length')"]
       ELSE LET headers == parseCSVLine(lines[1])
                records == [i \in 1..(Len(lines) - 1) |->
                              mapToRecord(headers, parseCSVLine(lines[i + 1]))]
            IN IngestResult(Len(lines) - 1, records,
                            [i \in 1..(Len(lines) - 1) |-> <<"Line", i>>])

\* ingestFromJSON
ingestFromJSON(data) ==
    IngestResult(Len(data), data, [k \in 1..Len(data) |-> <<"Record", k - 1>>])

\* The records of `batches` in the order ingestBatch's loops visit them,
\* and the labels of their failures.
RECURSIVE Visited(_, _)
Visited(batches, batchIdx) ==
    IF batchIdx >= Len(batches) THEN << >>
    ELSE [recordIdx \in 1..Len(batches[batchIdx + 1]) |->
            [record |-> batches[batchIdx + 1][recordIdx],
             label |-> <<"Batch", batchIdx, "Record", recordIdx - 1>>]]
         \o Visited(batches, batchIdx + 1)

\* ingestBatch after createBatches returned `batches`.  Its errors list
\* stops growing at ErrorCap entries.
ingestBatch(data, batches) ==
    LET visited == Visited(batches, 0)
    IN IngestResult(Len(data),
                    [k \in 1..Len(visited) |-> visited[k].record],
                    [k \in 1..Len(visited) |-> visited[k].label])

\* The inputs drawn.
MaxRecords == 2

ListsOf(S) == UNION {[1..n -> S] : n \in 0..MaxRecords}

\* The records drawn: a valid one, one with an amount that is no number,
\* one without a timestamp, null, and records with a bad timestamp and
\* with a label.
RecordKinds ==
    {[amount |-> "5000", timestamp |-> "2024-03-10T14:30:00Z"],
     [amount |-> "abc", timestamp |-> "2024-03-10T14:30:00Z"],
     [amount |-> "5000"],
     null,
     [amount |-> "5000", timestamp |-> "yesterday"],
     [amount |-> "5000", timestamp |-> "2024-03-10T14:30:00Z",
      is_fraudulent |-> "true"],
     [amount |-> "5000", timestamp |-> "2024-03-10T14:30:00Z",
      is_fraudulent |-> "maybe"]}

\* The lists drawn: the short ones, and two longer than the cap on errors,
\* every record invalid and all but one.
RecordLists ==
    ListsOf(RecordKinds)
    \cup {[k \in 1..(ErrorCap + 1) |->
             [amount |-> "abc", timestamp |-> "2024-03-10T14:30:00Z"]],
          [k \in 1..(ErrorCap + 2) |->
             IF k = 3 THEN [amount |-> "5000", timestamp |-> "2024-03-10T14:30:00Z"]
             ELSE IF k % 2 = 0 THEN [amount |-> "5000"]
             ELSE [amount |-> "abc", timestamp |-> "2024-03-10T14:30:00Z"]]}

\* The texts drawn: no line, blank lines only, a header with a few lines,
\* and a header with more invalid lines than the cap on errors.
CsvTexts ==
    {<<"">>, <<"   ", "">>}
    \cup {<<header>> \o body :
            header \in {"amount,timestamp", "timestamp,amount,is_fraudulent"},
            body \in ListsOf({"5000,2024-03-10T14:30:00Z",
                              "abc,2024-03-10T14:30:00Z",
                              "\"12,500.00\", 2024-03-10T14:30:00Z",
                              "5000,", "5000",
                              "2024-03-10T14:30:00Z,5000,true", "   "})}
    \cup {<<"amount,timestamp">> \o [k \in 1..(ErrorCap + 1) |-> "5000,"]}

InitIngest ==
    /\ InitThresholdStore
    /\ transaction = null
    /\ hour = 0
    /\ analysis = null
    /\ assessment = null
    /\ zone = 0
    /\ events = unset
    /\ logPos = 0
    /\ compliance_events = << >>
    /\ now = 0
    /\ selected = null
    /\ complianceMetrics = null
    /\ explanation = null
    /\ ingestor \in
          [op : {"ingestFromCSV"}, data : CsvTexts, batchSize : {1000},
           pc : {"called"}, i : {0}, batches : {<< >>}, result : {null}]
          \cup [op : {"ingestFromJSON"}, data : RecordLists, batchSize : {1000},
                pc : {"called"}, i : {0}, batches : {<< >>}, result : {null}]
          \cup [op : {"ingestBatch"}, data : RecordLists,
                batchSize : {-1, 0, 1, 2, 1000},
                pc : {"createBatches"}, i : {0}, batches : {<< >>}, result : {null}]
    /\ upload = null
    /\ dashboard = [pc |-> "idle", loads |-> 0, error |-> FALSE]
    /\ explainability_logs = << >>
    /\ feature_importance = << >>
    /\ updaters = << >>

IngestFromCSV ==
    /\ ingestor # null
    /\ ingestor.op = "ingestFromCSV"
    /\ ingestor.pc = "called"
    /\ ingestor' = [ingestor EXCEPT !.pc = "done",
                                    !.result = ingestFromCSV(ingestor.data)]
    /\ UNCHANGED <<storeVars, pipelineVars, explanation, persistVars, importanceVars>>

IngestFromJSON ==
    /\ ingestor # null
    /\ ingestor.op = "ingestFromJSON"
    /\ ingestor.pc = "called"
    /\ ingestor' = [ingestor EXCEPT !.pc = "done",
                                    !.result = ingestFromJSON(ingestor.data)]
    /\ UNCHANGED <<storeVars, pipelineVars, explanation, persistVars, importanceVars>>

createBatches ==
    /\ ingestor # null
    /\ ingestor.pc = "createBatches"
    /\ ingestor.i < Len(ingestor.data)
    /\ Len(ingestor.batches) <= Max(ErrorCap + 2, MaxRecords)
    /\ ingestor' = [ingestor EXCEPT
          !.batches = Append(@, slice(ingestor.data, ingestor.i,
                                      ingestor.i + ingestor.batchSize)),
          !.i = @ + ingestor.batchSize]
    /\ UNCHANGED <<storeVars, pipelineVars, explanation, persistVars, importanceVars>>

\* createBatches has returned: the two loops of ingestBatch and its return.
IngestBatch ==
    /\ ingestor # null
    /\ ingestor.pc = "createBatches"
    /\ ~(ingestor.i < Len(ingestor.data))
    /\ ingestor' = [ingestor EXCEPT
          !.pc = "done",
          !.result = ingestBatch(ingestor.data, ingestor.batches)]
    /\ UNCHANGED <<storeVars, pipelineVars, explanation, persistVars, importanceVars>>

NextIngest ==
    \/ IngestFromCSV
    \/ IngestFromJSON
    \/ createBatches
    \/ IngestBatch

SpecIngest == InitIngest /\ [][NextIngest]_vars

(***************************************************************************)
(* Handlers that compute a result and then persist it: handleFileUpload    *)
(* and handleManualSubmit (components/TransactionDetail.tsx) and           *)
(* loadExplanations (components/ExplainabilityDashboard.tsx) with          *)
(* ExplainabilityEngine.saveExplanation.                                   *)
(*                                                                         *)
(* A file is kept as the list of its non-blank lines, each line as the     *)
(* list of its trimmed cells (values), the header first.  An insert        *)
(* answers with the row it stored (data) or with an error and no data.     *)
(* The rows a handler pushes are the rows table transactions received      *)
(* from it, so the table has no variable of its own.  The timer that       *)
(* clears the displayed result five seconds later is left out.             *)
(***************************************************************************)
UploadCap == 11

MaxLoads == 4

\* {...a, ...b}
Spread(a, b) ==
    [key \in DOMAIN a \cup DOMAIN b |-> IF key \in DOMAIN b THEN b[key] ELSE a[key]]

\* values[index]
Cell(values, index) ==
    IF index + 1 <= Len(values) THEN values[index + 1] ELSE undefined

\* value || fallback, for strings
OrElse(value, fallback) == IF Truthy(value) THEN value ELSE fallback

\* parseFloat(values[1]) || Math.random() * 10000: the amounts it can be,
\* the random ones drawn from two.
UploadedAmounts(values) ==
    LET amount == parseFloat(Cell(values, 1))
    IN IF amount.nan \/ amount.v = 0 THEN {"45.99", "8750.00"} ELSE {Cell(values, 1)}

\* The transaction handleFileUpload builds from line i.
UploadedTransaction(values, i, amount) ==
    [transaction_id |-> OrElse(Cell(values, 0), "TXN<now>" \o ToString(i)),
     amount |-> amount,
     location |-> OrElse(Cell(values, 2), "Unknown"),
     merchant |-> OrElse(Cell(values, 3), "Unknown Merchant"),
     merchant_category |-> OrElse(Cell(values, 4), "retail"),
     device_info |-> OrElse(Cell(values, 5), "Web Browser"),
     ip_address |-> OrElse(Cell(values, 6), "192.168.1.1")]

\* The files drawn: no line, a header with a few lines, and a header with
\* more lines than are read.
UploadedFiles ==
    LET header == <<"transaction_id", "amount", "location", "merchant", "category">>
    IN {<< >>}
       \cup {<<header>> \o body :
               body \in ListsOf({<<"TXN001", "45.99", "London", "Corner Shop", "grocery">>,
                                 <<"TXN002", "60000", "", "", "Crypto">>,
                                 <<"", "abc">>})}
       \cup {<<header>> \o
               [k \in 1..UploadCap |->
                   <<"TXN0" \o ToString(k), "8750.00", "Paris", "Casino", "gambling">>]}

ManualForms ==
    [transaction_id : {"", "TXN001"}, amount : {"45.99", "60000", "abc"},
     location : {"London"}, merchant : {"Casino"},
     merchant_category : {"gambling", "retail"},
     device_info : {"iPhone 13"}, ip_address : {"192.168.1.100"}]

\* The transactions the dashboard is shown for.
DashboardTransactions ==
    {[transaction_id |-> "TXN001", amount |-> "45.99", location |-> "London, UK",
      merchant_category |-> "retail", device_info |-> "iPhone 13",
      ip_address |-> "192.168.1.100", timestamp |-> "2024-03-10T14:30:00Z",
      fraud_score |-> 0],
     [transaction_id |-> "TXN002", amount |-> "60000", location |-> undefined,
      merchant_category |-> "Crypto", device_info |-> undefined,
      ip_address |-> "45.123.67.89", timestamp |-> "2024-03-10T00:00:00Z",
      fraud_score |-> 750000]}

InitUpload ==
    /\ InitThresholdStore
    /\ transaction = null
    /\ hour \in {2, 14}
    /\ analysis = null
    /\ assessment = null
    /\ zone = 0
    /\ events = unset
    /\ logPos = 0
    /\ compliance_events = << >>
    /\ now = 0
    /\ selected = null
    /\ complianceMetrics = null
    /\ explanation = null
    /\ ingestor = null
    /\ upload \in
          [op : {"handleFileUpload"}, input : UploadedFiles, pc : {"called"}, i : {1},
           transactions : {<< >>}, scored : {<< >>}, delivered : {unset},
           result : {null}, error : {""}]
          \cup [op : {"handleManualSubmit"}, input : ManualForms, pc : {"called"},
                i : {1}, transactions : {<< >>}, scored : {<< >>},
                delivered : {unset}, result : {null}, error : {""}]
    /\ dashboard = [pc |-> "idle", loads |-> 0, error |-> FALSE]
    /\ explainability_logs = << >>
    /\ feature_importance = << >>
    /\ updaters = << >>

\* handleFileUpload up to its loop: the header is read from lines[0], and a
\* file without a line throws there, into the catch block.
HandleFileUpload ==
    /\ upload # null
    /\ upload.op = "handleFileUpload"
    /\ upload.pc = "called"
    /\ upload' = IF upload.input = << >>
                 THEN [upload EXCEPT !.pc = "done",
                          !.error = "Error processing file. Please check the format."]
                 ELSE [upload EXCEPT !.pc = "loop"]
    /\ UNCHANGED <<storeVars, pipelineVars, explanation, ingestor,
                   dashboard, explainability_logs, importanceVars>>

\* One iteration of its loop: the transaction of line i is built and
\* scored, the insert awaited, and the row pushed if data came back.
UploadInsert(data) ==
    /\ upload # null
    /\ upload.op = "handleFileUpload"
    /\ upload.pc = "loop"
    /\ upload.i < Min(Len(upload.input), UploadCap)
    /\ \E amount \in UploadedAmounts(upload.input[upload.i + 1]) :
          LET txn == UploadedTransaction(upload.input[upload.i + 1], upload.i, amount)
              row == Spread(txn, analyzeFraud(txn, hour))
          IN upload' = [upload EXCEPT
                !.i = @ + 1,
                !.scored = Append(@, row),
                !.transactions = IF data THEN Append(@, row) ELSE @]
    /\ UNCHANGED <<storeVars, pipelineVars, explanation, ingestor,
                   dashboard, explainability_logs, importanceVars>>

\* After the loop: onTransactionsAnalyzed(transactions).
UploadReturn ==
    /\ upload # null
    /\ upload.op = "handleFileUpload"
    /\ upload.pc = "loop"
    /\ ~(upload.i < Min(Len(upload.input), UploadCap))
    /\ upload' = [upload EXCEPT !.pc = "done", !.delivered = upload.transactions]
    /\ UNCHANGED <<storeVars, pipelineVars, explanation, ingestor,
                   dashboard, explainability_logs, importanceVars>>

\* handleManualSubmit up to its insert: the transaction is built and
\* scored, and simulateAnalysisSteps displays the result.
HandleManualSubmit ==
    /\ upload # null
    /\ upload.op = "handleManualSubmit"
    /\ upload.pc = "called"
    /\ LET txn == [upload.input EXCEPT !.transaction_id = OrElse(@, "TXN<now>")]
           row == Spread(txn, analyzeFraud(txn, hour))
       IN upload' = [upload EXCEPT !.pc = "insert",
                                   !.scored = <<row>>,
                                   !.result = row]
    /\ UNCHANGED <<storeVars, pipelineVars, explanation, ingestor,
                   dashboard, explainability_logs, importanceVars>>

\* Its insert has answered: onTransactionsAnalyzed([data]) if data came back.
ManualInsert(data) ==
    /\ upload # null
    /\ upload.op = "handleManualSubmit"
    /\ upload.pc = "insert"
    /\ upload' = [upload EXCEPT
          !.pc = "done",
          !.transactions = IF data THEN upload.scored ELSE @,
          !.delivered = IF data THEN upload.scored ELSE @]
    /\ UNCHANGED <<storeVars, pipelineVars, explanation, ingestor,
                   dashboard, explainability_logs, importanceVars>>

\* loadExplanations up to saveExplanation, run when the dashboard is given
\* transaction t: the explanation is computed and displayed.
LoadExplanations(t) ==
    /\ dashboard.pc = "idle"
    /\ dashboard.loads < MaxLoads
    /\ transaction' = t
    /\ explanation' = explainPrediction(t, t.fraud_score, zone)
    /\ dashboard' = [dashboard EXCEPT !.pc = "saveExplanation",
                                      !.loads = @ + 1, !.error = FALSE]
    /\ UNCHANGED <<storeVars, hour, analysis, assessment, zone, events, logPos,
                   compliance_events, now, selected, complianceMetrics,
                   ingestor, upload, explainability_logs, importanceVars>>

\* saveExplanation: the insert into explainability_logs, whose error is
\* only logged.
saveExplanation(error) ==
    /\ dashboard.pc = "saveExplanation"
    /\ explainability_logs' =
          IF error THEN explainability_logs
          ELSE Append(explainability_logs,
                      [transaction_id |-> explanation.transactionId,
                       model_prediction |-> explanation.modelPrediction,
                       prediction_confidence |-> explanation.confidence,
                       feature_importance |-> explanation.featureImportance])
    /\ dashboard' = [dashboard EXCEPT !.pc = "idle", !.error = error]
    /\ UNCHANGED <<storeVars, pipelineVars, explanation, ingestor, upload,
                   importanceVars>>

NextUpload ==
    \/ HandleFileUpload
    \/ \E data \in BOOLEAN : UploadInsert(data)
    \/ UploadReturn
    \/ HandleManualSubmit
    \/ \E data \in BOOLEAN : ManualInsert(data)

SpecUpload == InitUpload /\ [][NextUpload]_vars

\* The services before any call, their tables empty.
InitServices ==
    /\ InitThresholdStore
    /\ transaction = null
    /\ hour = 0
    /\ analysis = null
    /\ assessment = null
    /\ zone = 0
    /\ events = unset
    /\ logPos = 0
    /\ compliance_events = << >>
    /\ now = 0
    /\ selected = null
    /\ complianceMetrics = null
    /\ ServicesIdle

\* The dashboard, shown for one transaction after another.
NextDashboard ==
    \/ \E t \in DashboardTransactions : LoadExplanations(t)
    \/ \E error \in BOOLEAN : saveExplanation(error)

SpecDashboard == InitServices /\ [][NextDashboard]_vars

(***************************************************************************)
(* The feature-importance counter:                                         *)
(* ExplainabilityEngine.updateFeatureImportance (services/explainability.ts)*)
(* called by several callers at once.  Each call reads the row of the      *)
(* feature, then updates it or inserts one; the table executes each        *)
(* statement at once, and the calls' statements interleave.  The id of a   *)
(* row is its position in the table.  The statements do not fail.          *)
(***************************************************************************)
MaxUpdaters == 3

FeatureNames == {"Transaction Amount", "Location"}

\* select('id, sample_count').eq('feature_name', featureName).maybeSingle():
\* the row, null when there is none, and null (with an error that is not
\* read) when there are several.
maybeSingle(featureName) ==
    LET found == {k \in 1..Len(feature_importance) :
                     feature_importance[k].feature_name = featureName}
    IN IF Cardinality(found) = 1
       THEN LET k == CHOOSE k \in found : TRUE
            IN [id |-> feature_importance[k].id,
                sample_count |-> feature_importance[k].sample_count]
       ELSE null

\* A call of updateFeatureImportance up to the answer of its select.
updateFeatureImportance(featureName) ==
    /\ Len(updaters) < MaxUpdaters
    /\ updaters' = Append(updaters, [featureName |-> featureName,
                                     pc |-> "write",
                                     existing |-> maybeSingle(featureName)])
    /\ UNCHANGED <<storeVars, pipelineVars, explanation, ingestor, persistVars,
                   feature_importance>>

\* The rest of call c: the update of the row it read, with the count it
\* read plus one, or the insert of a row counting 1.
WriteReturn(c) ==
    /\ c \in 1..Len(updaters)
    /\ updaters[c].pc = "write"
    /\ feature_importance' =
          IF updaters[c].existing # null
          THEN [k \in 1..Len(feature_importance) |->
                  IF feature_importance[k].id = updaters[c].existing.id
                  THEN [feature_importance[k] EXCEPT
                          !.sample_count = updaters[c].existing.sample_count + 1]
                  ELSE feature_importance[k]]
          ELSE Append(feature_importance,
                      [id |-> Len(feature_importance) + 1,
                       feature_name |-> updaters[c].featureName,
                       sample_count |-> 1])
    /\ updaters' = [updaters EXCEPT ![c].pc = "done"]
    /\ UNCHANGED <<storeVars, pipelineVars, explanation, ingestor, persistVars>>

NextImportance ==
    \/ \E featureName \in FeatureNames : updateFeatureImportance(featureName)
    \/ \E c \in 1..MaxUpdaters : WriteReturn(c)

SpecImportance == InitServices /\ [][NextImportance]_vars

(***************************************************************************)
(* Properties of the Threshold Store.                                      *)
(***************************************************************************)
WithinBounds(cfg) ==
    cfg.minThreshold <= cfg.fraudThreshold /\ cfg.fraudThreshold <= cfg.maxThreshold

\* The current iteration has computed its metrics (and, with enough samples,
\* its adjustment); `config` is the configuration the iteration works on.
Computed == pc \in {"update", "next"}
EnoughSamples == metrics.sampleCount >= config.sampleSizeMinimum

\* The delta before clamping, as section 4.2 states it.
PreClampDelta ==
    IF metrics.falsePositiveRate > FalsePositiveLimit
    THEN config.adaptationRate * (metrics.falsePositiveRate - TargetRate)
    ELSE IF metrics.falseNegativeRate > FalseNegativeLimit
    THEN config.adaptationRate * (metrics.falseNegativeRate - TargetRate)
    ELSE 0

InReturnedList(category) ==
    \E i \in 1..Len(adjustments) : adjustments[i].merchantCategory = category

\* The arguments the reads are probed with: categories present, absent,
\* unrecognised and in several letter cases; scores around each threshold.
QueryCategories == {undefined, "", "unknown", "grocery", "CRYPTO", "Luxury"}
Offsets == <<-1, 0, 1, 99999, 100000, 249999, 250000>>

\* C1: starting from the seeded defaults, after any sequence of recalibrations
\* every segment's threshold lies within [minThreshold, maxThreshold].
C1_BoundsAfterRecalibration ==
    \A i \in 1..Len(thresholdCache) : WithinBounds(thresholdCache[i].value)

\* A recalibration has clamped a threshold to its maxThreshold.
C1_Witness ==
    /\ pc = "update"
    /\ adjustment.oldThreshold + adjustment.adjustmentFactor > config.maxThreshold
    /\ thresholdCache[iter].value.fraudThreshold = config.maxThreshold

\* C2: in every reachable state of the store (seeding, load, create and
\* recalibrate in any order) every stored configuration has
\* minThreshold <= fraudThreshold <= maxThreshold.
C2_BoundsAtAllTimes ==
    \A k \in MapKeys(thresholdCache) :
        /\ MapGet(thresholdCache, k).minThreshold <= MapGet(thresholdCache, k).fraudThreshold
        /\ MapGet(thresholdCache, k).fraudThreshold <= MapGet(thresholdCache, k).maxThreshold

\* C3: with enough samples, false-positive rate <= 0.15 and false-negative
\* rate > 0.10, the threshold computed (reason '... - decreasing threshold')
\* is never higher than the old one, and strictly lower when the old one is
\* above minThreshold.
C3_FalseNegativeLowers ==
    (/\ Computed
     /\ EnoughSamples
     /\ metrics.falsePositiveRate <= FalsePositiveLimit
     /\ metrics.falseNegativeRate > FalseNegativeLimit
     /\ adjustment # null)
    => /\ adjustment.reason = "High false negative rate - decreasing threshold"
       /\ adjustment.newThreshold <= adjustment.oldThreshold
       /\ (adjustment.oldThreshold > config.minThreshold
             => adjustment.newThreshold < adjustment.oldThreshold)

C5_StableIsNoOp ==
    [][(/\ pc = "metrics"
        /\ pc' # "metrics"
        /\ metrics'.falsePositiveRate <= FalsePositiveLimit
        /\ metrics'.falseNegativeRate <= FalseNegativeLimit)
       => /\ adjustment' = null
          /\ thresholdCache' = thresholdCache
          /\ adjustments' = adjustments
          /\ pc' = "next"]_vars

\* An iteration with enough samples and stable metrics has ended without an
\* adjustment.
C5_Witness ==
    /\ pc = "next"
    /\ metrics.sampleCount >= config.sampleSizeMinimum
    /\ metrics.sampleCount > 0
    /\ metrics.falsePositiveRate <= FalsePositiveLimit
    /\ metrics.falseNegativeRate <= FalseNegativeLimit
    /\ adjustment = null

\* C6 as stated: with enough samples, a record for the segment is in the
\* returned list exactly when |delta| > 0.001, and the threshold is updated
\* exactly when |delta| > 0.02.
C6_DualGateAsStated ==
    (Computed /\ EnoughSamples)
    => /\ InReturnedList(config.merchantCategory) <=> Abs(PreClampDelta) > EmitGate
       /\ pc = "update" => Abs(PreClampDelta) > ApplyGate

\* C6 amended: with enough samples, calculateOptimalThreshold yields a record
\* exactly when |delta| > 0.001; the record is appended to the returned list
\* and the threshold is updated exactly when |delta| > 0.02, and otherwise the
\* returned list and the cache are left as they were.
C6_DualGate ==
    [][(/\ pc = "metrics"
        /\ pc' # "metrics"
        /\ metrics'.sampleCount >= config.sampleSizeMinimum)
       => LET delta == IF metrics'.falsePositiveRate > FalsePositiveLimit
                       THEN config.adaptationRate * (metrics'.falsePositiveRate - TargetRate)
                       ELSE IF metrics'.falseNegativeRate > FalseNegativeLimit
                       THEN config.adaptationRate * (metrics'.falseNegativeRate - TargetRate)
                       ELSE 0
          IN /\ adjustment' # null <=> Abs(delta) > EmitGate
             /\ Abs(delta) > ApplyGate
                  => /\ adjustments' = Append(adjustments, adjustment')
                     /\ pc' = "update"
                     /\ thresholdCache'[iter].value.fraudThreshold = adjustment'.newThreshold
             /\ Abs(delta) <= ApplyGate
                  => /\ adjustments' = adjustments
                     /\ pc' = "next"
                     /\ thresholdCache' = thresholdCache]_vars

\* An adjustment between the two gates: computed, not returned, not applied.
C6_Witness ==
    /\ pc = "next"
    /\ EnoughSamples
    /\ adjustment # null
    /\ Abs(adjustment.adjustmentFactor) > EmitGate
    /\ Abs(adjustment.adjustmentFactor) <= ApplyGate
    /\ ~InReturnedList(config.merchantCategory)
    /\ thresholdCache[iter].value.fraudThreshold = adjustment.oldThreshold

Rank(level) ==
    CASE level = "low" -> 0 [] level = "medium" -> 1
      [] level = "high" -> 2 [] level = "critical" -> 3

\* C7: for every score s and category c, isTransactionFraudulent(s, c) is
\* s > getThreshold(c), and calculateRiskLevel(s, c) is 'low' exactly when
\* s <= getThreshold(c), that is exactly when the transaction is not fraudulent.
C7_SegmentAwareDecision ==
    \A c \in QueryCategories :
        LET t == getThreshold(c)
        IN \A i \in 1..Len(Offsets) :
             LET s == t + Offsets[i]
                 fraud == isTransactionFraudulent(s, c)
                 low == calculateRiskLevel(s, c) = "low"
             IN /\ fraud <=> s > t
                /\ low <=> s <= t
                /\ low <=> ~fraud

\* After a recalibration of 'crypto', a score of 0.72 is low for 'CRYPTO' and
\* fraudulent for an unrecognised category.
C7_Witness ==
    /\ InReturnedList("crypto")
    /\ getThreshold("CRYPTO") > 720000
    /\ ~isTransactionFraudulent(720000, "CRYPTO")
    /\ calculateRiskLevel(720000, "CRYPTO") = "low"
    /\ isTransactionFraudulent(720000, "unknown")
    /\ calculateRiskLevel(720000, "unknown") # "low"

C9_KeysLowerCased ==
    \A i \in 1..Len(thresholdCache) :
        /\ toLowerCase(thresholdCache[i].key) = thresholdCache[i].key
        /\ getFullConfig(thresholdCache[i].value.merchantCategory) = thresholdCache[i].value
        /\ getThreshold(thresholdCache[i].value.merchantCategory)
             = thresholdCache[i].value.fraudThreshold

\* C10: no step removes a key of the store, and 'default' is a key before and
\* after every step, so getFullConfig returns a stored configuration.
C10_SegmentsNeverDeleted ==
    [][/\ MapKeys(thresholdCache) \subseteq MapKeys(thresholdCache')
       /\ "default" \in MapKeys(thresholdCache)
       /\ "default" \in MapKeys(thresholdCache')
       /\ \A c \in QueryCategories :
            \E i \in 1..Len(thresholdCache') : getFullConfig(c)' = thresholdCache'[i].value]_vars

\* The store has grown by a created segment and replaced a loaded one.
C10_Witness ==
    /\ Len(thresholdCache) = 8
    /\ "Luxury" \in MapKeys(thresholdCache)
    /\ MapGet(thresholdCache, "crypto").maxThreshold = PersistedRow.maxThreshold
    /\ getFullConfig("luxury") = MapGet(thresholdCache, "default")

\* C11: a failed read in loadThresholdsFromDatabase and a failed transactions
\* read during recalibration leave every cached configuration exactly as it
\* was before the call; after a failed write in updateThreshold the
\* recalibration neither stops nor skips: it ends the iteration, goes on to the
\* next entry of the cache while one remains, and then returns its list.
C11_FailuresDoNotAbort ==
    [][ /\ \A response \in LoadResponses :
              (response.error /\ loadThresholdsFromDatabase(response))
                  => thresholdCache' = thresholdCache
        /\ (pc = "metrics" /\ pc' # "metrics" /\ failed')
              => /\ thresholdCache' = thresholdCache
                 /\ adjustments' = adjustments
                 /\ pc' = "next" /\ iter' = iter
        /\ (pc = "update" /\ pc' # "update" /\ failed')
              => /\ thresholdCache' = thresholdCache
                 /\ adjustments' = adjustments
                 /\ pc' = "next" /\ iter' = iter
        /\ (pc = "next" /\ failed)
              => /\ ENABLED NextIteration
                 /\ pc' # "next" =>
                       IF iter < Len(thresholdCache)
                       THEN /\ pc' = "metrics" /\ iter' = iter + 1
                            /\ config' = thresholdCache[iter + 1].value
                       ELSE /\ pc' = "idle"
                            /\ adjustments' = adjustments
      ]_vars

\* The write of an applied adjustment has failed and entries of the cache remain.
C11_Witness ==
    /\ pc = "next" /\ failed
    /\ Applies(adjustment)
    /\ iter < Len(thresholdCache)

\* C12: a read made while a recalibration is suspended at an await observes,
\* for the segment the recalibration is working on, one whole configuration:
\* the one the iteration started with, or that one with the new threshold as
\* its only change once the update has been made; the threshold and the
\* decision read with it are those of that same configuration.
C12_AtomicReads ==
    (observed # null /\ toLowerCase(observed.merchantCategory) = config.merchantCategory)
        => /\ \/ observed.config = config
              \/ /\ Applies(adjustment)
                 /\ observed.config =
                        [config EXCEPT !.fraudThreshold = adjustment.newThreshold]
           /\ observed.threshold = observed.config.fraudThreshold
           /\ observed.fraudulent =
                  (observed.config.maxThreshold > observed.config.fraudThreshold)

\* A read of the segment made after its update, during the await of the write.
C12_Witness ==
    /\ observed # null
    /\ pc = "update"
    /\ toLowerCase(observed.merchantCategory) = config.merchantCategory
    /\ observed.config = [config EXCEPT !.fraudThreshold = adjustment.newThreshold]
    /\ observed.config # config

\* C26: when the metrics of a segment come back during recalibration, a
\* sample count below the sampleSizeMinimum of the segment's configuration
\* leaves the cache and the adjustments as they were, whatever the rates
\* are; a count that reaches or equals it is evaluated, and the adjustment
\* that passes the gate is pushed and written.
C26_SampleSizeGate ==
    [][(pc = "metrics" /\ pc' # "metrics") =>
          IF metrics'.sampleCount < config.sampleSizeMinimum
          THEN /\ thresholdCache' = thresholdCache
               /\ adjustments' = adjustments
               /\ pc' = "next"
          ELSE /\ adjustment' = calculateOptimalThreshold(metrics', config)
               /\ Applies(adjustment') =>
                     /\ adjustments' = Append(adjustments, adjustment')
                     /\ MapGet(thresholdCache', thresholdCache[iter].key).fraudThreshold
                           = adjustment'.newThreshold
                     /\ pc' = "update"
      ]_vars

\* A segment skipped for its sample count although its false-positive rate
\* is above the limit.
C26_Witness ==
    /\ pc = "next"
    /\ metrics # null
    /\ metrics.sampleCount > 0
    /\ metrics.sampleCount < config.sampleSizeMinimum
    /\ metrics.falsePositiveRate > FalsePositiveLimit
    /\ adjustment = null

\* A segment adjusted with exactly sampleSizeMinimum samples.
C26_WitnessEligible ==
    /\ pc = "update"
    /\ metrics # null
    /\ metrics.sampleCount = config.sampleSizeMinimum
    /\ Applies(adjustment)

\* C27: whenever a recalibration writes a threshold, whatever load or
\* create replaced the segment's configuration while it was fetching the
\* metrics, the threshold written lies within the minThreshold and
\* maxThreshold of the configuration it is written to.
C27_RaceKeepsBounds ==
    [][(pc = "metrics" /\ pc' = "update") =>
          LET written == MapGet(thresholdCache', thresholdCache[iter].key)
          IN /\ written.fraudThreshold = adjustment'.newThreshold
             /\ written.minThreshold <= written.fraudThreshold
             /\ written.fraudThreshold <= written.maxThreshold
      ]_vars

\* C27 without a replacement in between: the configuration written to is the
\* one the iteration began with.
C27_NoRaceKeepsBounds ==
    [][(pc = "metrics" /\ pc' = "update"
          /\ MapGet(thresholdCache, thresholdCache[iter].key) = config) =>
          LET written == MapGet(thresholdCache', thresholdCache[iter].key)
          IN /\ written.minThreshold <= written.fraudThreshold
             /\ written.fraudThreshold <= written.maxThreshold
      ]_vars

(***************************************************************************)
(* Properties of the Fraud Estimator.                                      *)
(***************************************************************************)
\* The amount of the submitted transaction as a number of cents; an amount
\* that is not a number counts as 0.
Amount ==
    LET a == parseFloat(transaction.amount) IN IF a.nan THEN 0 ELSE a.v

\* The submitted categories that contain gambling, luxury or crypto in some
\* letter case.
HighRiskNamed ==
    {"gambling", "Online Gambling", "LUXURY", "luxury_goods", "Crypto", "cryptocurrency"}

AtNight == hour \in 0..4

Pieces(text) == {text[i] : i \in 1..Len(text)}

\* C13: for every transaction and evaluation hour the returned fraud_score is
\* min(1, sum of the weights of the triggered rules) and lies in [0, 1], the
\* rules being amount > 5000 (0.30), hour in [0, 4] (0.25), a category naming
\* gambling, luxury or crypto (0.25) and amount > 10000 (0.20); is_fraudulent
\* is fraud_score > 0.5.
C13_FraudScoreDefinition ==
    analysis # null =>
        LET sum == (IF Amount > 500000 THEN 300000 ELSE 0)
                   + (IF AtNight THEN 250000 ELSE 0)
                   + (IF transaction.merchant_category \in HighRiskNamed THEN 250000 ELSE 0)
                   + (IF Amount > 1000000 THEN 200000 ELSE 0)
        IN /\ analysis.fraud_score = Min(1000000, sum)
           /\ analysis.fraud_score >= 0 /\ analysis.fraud_score <= 1000000
           /\ analysis.is_fraudulent = (analysis.fraud_score > 500000)

\* A score of exactly 0.5, which is not flagged.
C13_Witness ==
    /\ analysis # null
    /\ analysis.fraud_score = 500000
    /\ ~analysis.is_fraudulent

\* C14: a transaction with amount <= 5000, a category naming none of gambling,
\* luxury, crypto (or no category) and an evaluation hour outside [0, 4] gets
\* fraud_score 0, is_fraudulent false and the reason 'Normal transaction
\* pattern'; that reason is returned in no other case.
C14_NoRuleMeansClean ==
    analysis # null =>
        LET noRule == /\ Amount <= 500000
                      /\ transaction.merchant_category \notin HighRiskNamed
                      /\ ~AtNight
            fallback == analysis.detection_reason = <<"Normal transaction pattern">>
        IN /\ noRule => /\ analysis.fraud_score = 0
                        /\ ~analysis.is_fraudulent
                        /\ fallback
           /\ fallback => noRule

\* An amount of exactly 5000 with no other rule triggered, analysed.
C14_Witness ==
    /\ analysis # null
    /\ transaction.amount = "5000"
    /\ transaction.merchant_category = "retail"
    /\ hour = 5
    /\ analysis.detection_reason = <<"Normal transaction pattern">>

\* C15: a transaction with amount > 5000 whose category names gambling, luxury
\* or crypto in any letter case gets, at every evaluation hour, fraud_score
\* >= 0.55, is_fraudulent true and a reason that includes both 'Unusual
\* transaction amount' and 'High-risk merchant category'.
C15_LargeAmountHighRiskFlagged ==
    (/\ analysis # null
     /\ Amount > 500000
     /\ transaction.merchant_category \in HighRiskNamed)
        => /\ analysis.fraud_score >= 550000
           /\ analysis.is_fraudulent
           /\ "Unusual transaction amount" \in Pieces(analysis.detection_reason)
           /\ "High-risk merchant category" \in Pieces(analysis.detection_reason)

\* 8750.00 at a category written in capitals, by day: the score is 0.55.
C15_Witness ==
    /\ analysis # null
    /\ transaction.amount = "8750.00"
    /\ transaction.merchant_category = "LUXURY"
    /\ ~AtNight
    /\ analysis.fraud_score = 550000
    /\ analysis.is_fraudulent

\* C28: a transaction whose amount is at most 5000, or is not a number, is
\* not flagged at any category and any evaluation hour: the timing and the
\* category rule together reach 0.5, which is not above the cutoff; and a
\* transaction that is flagged has triggered at least two rules.
C28_SmallAmountsNeverFlagged ==
    analysis # null =>
        /\ Amount <= 500000 =>
              /\ ~analysis.is_fraudulent
              /\ analysis.fraud_score <= 500000
        /\ analysis.is_fraudulent =>
              Cardinality(Pieces(analysis.detection_reason) \ {", "}) >= 2

\* 5000 spent on crypto at two in the morning: both remaining rules
\* trigger, the score is 0.5 and the transaction is not flagged.
C28_Witness ==
    /\ analysis # null
    /\ transaction.amount = "5000"
    /\ transaction.merchant_category = "Crypto"
    /\ hour = 2
    /\ analysis.fraud_score = 500000
    /\ ~analysis.is_fraudulent
    /\ Len(analysis.detection_reason) > 1

(***************************************************************************)
(* Properties of the Compliance Classifier.                                *)
(***************************************************************************)
\* The amount of the classified transaction in cents, 0 when not a number.
ClassifiedAmount ==
    LET a == parseFloat(transaction.amount) IN IF a.nan THEN 0 ELSE a.v

EventsOfType(type) == {i \in 1..Len(events) : events[i].eventType = type}

Absent(field) == field \in {undefined, ""}

\* The hour of the transaction on the host's clock; none when the timestamp
\* is absent or not a date.
TransactionHours ==
    IF transaction.timestamp \in ValidTimestamps
    THEN {(UTCHour(transaction.timestamp) + zone + 24) % 24}
    ELSE {}

\* C16: the classifier emits exactly one high_value_transaction event with
\* severity critical iff amount > 50000, exactly one with severity high iff
\* 10000 < amount <= 50000, and none when amount <= 10000.
C16_HighValueSeverity ==
    events # unset =>
        LET hv == EventsOfType("high_value_transaction")
            critical == {i \in hv : events[i].severity = "critical"}
            high == {i \in hv : events[i].severity = "high"}
        IN /\ (Cardinality(critical) = 1 /\ hv = critical) <=> ClassifiedAmount > 5000000
           /\ (Cardinality(high) = 1 /\ hv = high)
                 <=> (ClassifiedAmount > 1000000 /\ ClassifiedAmount <= 5000000)
           /\ ClassifiedAmount <= 1000000 => hv = {}
           /\ Cardinality(hv) <= 1

\* An amount of exactly 50000, classified: one event, of severity high.
C16_Witness ==
    /\ events # unset
    /\ transaction.amount = "50000"
    /\ \E i \in 1..Len(events) :
          events[i].eventType = "high_value_transaction" /\ events[i].severity = "high"

\* C17: the types of the emitted events are exactly the triggered rules
\* (fraudScore > 0.7; amount > 10000; location or device absent; riskLevel high
\* or critical; transaction hour < 6 or > 23), each type at most once, every
\* event pending, and the GDPR event critical exactly when riskLevel is
\* critical; amount 15000 with location and device missing yields both
\* high_value_transaction (high) and incomplete_transaction_data (medium).
C17_RulesIndependent ==
    events # unset =>
        LET triggered ==
                (IF assessment.fraudScore > 700000
                   THEN {"fraud_detection_threshold_exceeded"} ELSE {})
                \cup (IF ClassifiedAmount > 1000000 THEN {"high_value_transaction"} ELSE {})
                \cup (IF Absent(transaction.location) \/ Absent(transaction.device_info)
                        THEN {"incomplete_transaction_data"} ELSE {})
                \cup (IF assessment.riskLevel \in {"high", "critical"}
                        THEN {"high_risk_transaction_detected"} ELSE {})
                \cup (IF \E h \in TransactionHours : h < 6 \/ h > 23
                        THEN {"unusual_transaction_time"} ELSE {})
        IN /\ {events[i].eventType : i \in 1..Len(events)} = triggered
           /\ Len(events) = Cardinality(triggered)
           /\ \A i \in 1..Len(events) :
                 /\ events[i].resolutionStatus = "pending"
                 /\ events[i].complianceStandard = "GDPR"
                       => (events[i].severity = "critical"
                              <=> assessment.riskLevel = "critical")
           /\ (/\ transaction.amount = "15000"
               /\ Absent(transaction.location) /\ Absent(transaction.device_info))
                 => /\ \E i \in 1..Len(events) :
                          /\ events[i].eventType = "high_value_transaction"
                          /\ events[i].severity = "high"
                    /\ \E i \in 1..Len(events) :
                          /\ events[i].eventType = "incomplete_transaction_data"
                          /\ events[i].severity = "medium"

\* The scenario of the claim, classified with risk level high, a score not
\* above 0.7 and an hour of the day: three rules triggered, two not.
C17_Witness ==
    /\ events # unset
    /\ transaction.amount = "15000"
    /\ Absent(transaction.location) /\ Absent(transaction.device_info)
    /\ assessment.riskLevel = "high"
    /\ Len(events) = 3

(***************************************************************************)
(* Properties of the Compliance Log.                                       *)
(***************************************************************************)
\* C18: over any sequence of logComplianceEvent and markEventAsResolved calls
\* every event is created pending, its status changes only from pending to
\* resolved, a resolved event's status, notes and resolution time never change
\* again, and no event is deleted.
C18_EventLifecycle ==
    [][ /\ Len(compliance_events') >= Len(compliance_events)
        /\ \A i \in 1..Len(compliance_events') :
              IF i > Len(compliance_events)
              THEN compliance_events'[i].resolution_status = "pending"
              ELSE /\ compliance_events'[i].id = compliance_events[i].id
                   /\ compliance_events[i].resolution_status = "pending"
                         => compliance_events'[i].resolution_status
                               \in {"pending", "resolved"}
                   /\ compliance_events[i].resolution_status = "resolved"
                         => compliance_events'[i] = compliance_events[i]
      ]_vars

(***************************************************************************)
(* Properties of the Compliance Metrics.                                   *)
(***************************************************************************)
\* The rows the select returned; none when it returned no data.
Window == IF selected.error THEN <<>> ELSE selected.data

NumberWith(field, val) ==
    Cardinality({i \in 1..Len(Window) : Window[i][field] = val})

\* C19: getComplianceMetrics returns totalEvents = the number of events,
\* criticalEvents = the number with severity critical, unresolvedEvents = the
\* number with status pending and resolutionRate = resolved / totalEvents, 0
\* when there are no events; 10 events with 4 critical and 6 resolved give
\* resolutionRate 0.6 and criticalEvents 4.
C19_AggregateCounts ==
    complianceMetrics # null =>
        LET total == Len(Window)
            resolved == NumberWith("resolution_status", "resolved")
            rate == complianceMetrics.resolutionRate
        IN /\ complianceMetrics.totalEvents = total
           /\ complianceMetrics.criticalEvents = NumberWith("severity", "critical")
           /\ complianceMetrics.unresolvedEvents = NumberWith("resolution_status", "pending")
           /\ rate.den > 0
           /\ IF total = 0 THEN rate.num = 0
              ELSE rate.num * total = resolved * rate.den
           /\ (total = 10 /\ resolved = 6 /\ NumberWith("severity", "critical") = 4)
                 => /\ rate.num * 10 = 6 * rate.den
                    /\ complianceMetrics.criticalEvents = 4

\* The metrics of 10 events, 4 of them critical and 6 resolved, with one
\* under investigation among them.
C19_Witness ==
    /\ complianceMetrics # null
    /\ Len(Window) = 10
    /\ NumberWith("resolution_status", "resolved") = 6
    /\ NumberWith("severity", "critical") = 4
    /\ NumberWith("resolution_status", "investigating") = 1
    /\ complianceMetrics.unresolvedEvents = 3

\* C20: for every outcome of getComplianceMetrics (events present, no events,
\* no data returned by the read) standardCoverage has an entry for each of
\* PCI-DSS, GDPR, AML-KYC, SOX, HIPAA and CCPA, equal to the number of events
\* with that standard, 0 for a standard with none.
C20_CoverageZeroFilled ==
    complianceMetrics # null =>
        \A standard \in {"PCI-DSS", "GDPR", "AML-KYC", "SOX", "HIPAA", "CCPA"} :
            /\ MapHas(complianceMetrics.standardCoverage, standard)
            /\ MapGet(complianceMetrics.standardCoverage, standard)
                  = NumberWith("compliance_standard", standard)

(***************************************************************************)
(* Properties of the Explainability Engine.                                *)
(***************************************************************************)
\* The amount of the explained transaction in cents, 0 when not a number.
ExplainedAmount ==
    LET a == parseFloat(transaction.amount) IN IF a.nan THEN 0 ELSE a.v

ImportanceSum ==
    LET list == explanation.featureImportance
        RECURSIVE Sum(_)
        Sum(i) == IF i = 0 THEN 0 ELSE list[i].importance + Sum(i - 1)
    IN Sum(Len(list))

SortedEight ==
    /\ Len(explanation.featureImportance) = 8
    /\ \A i \in 1..7 : explanation.featureImportance[i].importance
                          >= explanation.featureImportance[i + 1].importance

\* C21 as stated: for a non-negative amount the list has eight entries in
\* non-increasing order of importance and confidence is exactly
\* min(sum of the importances + 0.3, 0.95), within [0, 0.95].
C21_ConfidenceAsStated ==
    (explanation # null /\ ExplainedAmount >= 0)
        => /\ SortedEight
           /\ explanation.confidence = Min(ImportanceSum + 30000000, 95000000)
           /\ explanation.confidence >= 0 /\ explanation.confidence <= 95000000

\* C21: for a non-negative amount featureImportance has eight entries in
\* non-increasing order of importance, and confidence is min(sum of the
\* importances + 0.3, 0.95) rounded to three decimals, within [0, 0.95].
C21_OrderingAndConfidence ==
    (explanation # null /\ ExplainedAmount >= 0)
        => /\ SortedEight
           /\ LET exact == Min(ImportanceSum + 30000000, 95000000)
              IN /\ explanation.confidence % 100000 = 0
                 /\ 2 * Abs(explanation.confidence - exact) <= 100000
           /\ explanation.confidence >= 0 /\ explanation.confidence <= 95000000

\* An explanation whose entries were pushed out of order and whose exact
\* confidence has more than three decimals.
C21_Witness ==
    /\ explanation # null
    /\ transaction.amount = "45.99"
    /\ explanation.featureImportance[8].feature = "Transaction Amount"
    /\ explanation.confidence # Min(ImportanceSum + 30000000, 95000000)
    /\ explanation.confidence < 95000000

\* C22: for every amount >= 0 the amount sub-score is min(amount / 10000, 1):
\* the importance of 'Transaction Amount' is min(amount / 10000, 1) * 0.15,
\* never above 0.15, with impact positive exactly when the sub-score is > 0.7.
C22_AmountSubScoreCapped ==
    (explanation # null /\ ExplainedAmount >= 0)
        => \A i \in 1..Len(explanation.featureImportance) :
              explanation.featureImportance[i].feature = "Transaction Amount"
                  => LET subScore == Min(ExplainedAmount, 1000000)
                         entry == explanation.featureImportance[i]
                     IN /\ entry.importance = subScore * 15
                        /\ entry.importance <= 15000000
                        /\ entry.impact = "positive" <=> subScore > 700000

(***************************************************************************)
(* Properties of the Data Ingestor.                                        *)
(***************************************************************************)
\* The records the running call is given: the lines after the header for
\* ingestFromCSV, the list itself for the other two.
IngestedRecords ==
    IF ingestor.op = "ingestFromCSV"
    THEN LET lines == SelectSeq(ingestor.data, LAMBDA line : trim(line) # "")
         IN IF lines = << >> THEN << >>
            ELSE [k \in 1..(Len(lines) - 1) |->
                    mapToRecord(parseCSVLine(lines[1]), parseCSVLine(lines[k + 1]))]
    ELSE ingestor.data

\* The positions of the invalid records.
Failing ==
    {k \in 1..Len(IngestedRecords) : validateRecord(IngestedRecords[k]) # "ok"}

\* The n-th invalid record's position.
NthFailing(n) ==
    CHOOSE k \in Failing : Cardinality({j \in Failing : j < k}) = n - 1

RECURSIVE Flat(_)
Flat(lists) == IF lists = << >> THEN << >> ELSE Head(lists) \o Flat(Tail(lists))

\* C23: every call of ingestFromCSV, ingestFromJSON and ingestBatch that
\* ends returns a result and does not throw, with total >= 0,
\* success + failed = total, each invalid record counted once in failed,
\* and errors holding the messages of the first min(failed, 10) failing
\* records in order.
C23_BatchNeverFails ==
    (ingestor # null /\ ingestor.pc = "done") =>
        LET result == ingestor.result
        IN /\ "threw" \notin DOMAIN result
           /\ result.total >= 0
           /\ result.success + result.failed = result.total
           /\ result.failed = Cardinality(Failing)
           /\ Len(result.errors) = Min(result.failed, ErrorCap)
           /\ \A n \in 1..Len(result.errors) :
                 result.errors[n][Len(result.errors[n])]
                    = validateRecord(IngestedRecords[NthFailing(n)])

\* C30: for every batchSize and every list, ingestBatch terminates (its
\* batching loop runs at most once per record), and the batches made so
\* far, concatenated in order, are the records before position i, every
\* batch non-empty and no longer than batchSize; at the return they are
\* the whole list, and each record was validated exactly once.
C30_BatchingPartitions ==
    (ingestor # null /\ ingestor.op = "ingestBatch") =>
        /\ Len(ingestor.batches) <= Len(ingestor.data)
        /\ Flat(ingestor.batches)
              = slice(ingestor.data, 0, Max(ingestor.i, 0))
        /\ \A b \in 1..Len(ingestor.batches) :
              /\ ingestor.batches[b] # << >>
              /\ Len(ingestor.batches[b]) <= ingestor.batchSize
        /\ ingestor.pc = "done" =>
              /\ Flat(ingestor.batches) = ingestor.data
              /\ ingestor.result.success + ingestor.result.failed
                    = Len(ingestor.data)

\* C30 for the batch sizes a batch can have: the same, when batchSize is a
\* positive integer.
C30_PositiveBatchSize ==
    (ingestor # null /\ ingestor.batchSize >= 1) => C30_BatchingPartitions

(***************************************************************************)
(* Properties of the handlers that persist what they computed.             *)
(***************************************************************************)
\* C24: a result that was computed is delivered whether or not the insert
\* that follows succeeds: every transaction scored during a file upload is
\* in the list passed to onTransactionsAnalyzed, the transaction scored for
\* a manual submission is displayed, and the explanation computed for the
\* dashboard stays displayed when saveExplanation failed.
C24_ResultsSurvive ==
    /\ (/\ upload # null
        /\ upload.op = "handleFileUpload"
        /\ upload.pc = "done"
        /\ upload.error = "") => upload.delivered = upload.scored
    /\ (/\ upload # null
        /\ upload.op = "handleManualSubmit"
        /\ upload.pc = "done") => upload.result = upload.scored[1]
    /\ (dashboard.pc = "idle" /\ dashboard.error) =>
          explanation = explainPrediction(transaction, transaction.fraud_score, zone)

\* The part of C24 about saveExplanation: after a failed save the
\* explanation computed by the load is the one displayed.
C24_ExplanationKept ==
    (dashboard.pc = "idle" /\ dashboard.error) =>
        /\ explanation # null
        /\ explanation = explainPrediction(transaction, transaction.fraud_score, zone)

\* The stored rows of a transaction.
LogsOf(transactionId) ==
    {k \in 1..Len(explainability_logs) :
        explainability_logs[k].transaction_id = transactionId}

\* C25: after any sequence of dashboard loads, explainability_logs holds at
\* most one row per transaction, and a stored row is never written again
\* or changed.
C25_OneExplanationPerTransaction ==
    [][/\ \A t \in DashboardTransactions :
             Cardinality(LogsOf(t.transaction_id))' <= 1
       /\ Len(explainability_logs') >= Len(explainability_logs)
       /\ SubSeq(explainability_logs', 1, Len(explainability_logs))
             = explainability_logs]_vars

\* Stored rows are only ever added: none is changed or removed.
C25_RowsNeverChanged ==
    [][/\ Len(explainability_logs') >= Len(explainability_logs)
       /\ SubSeq(explainability_logs', 1, Len(explainability_logs))
             = explainability_logs]_vars

(***************************************************************************)
(* Properties of the feature-importance counter.                           *)
(***************************************************************************)
\* The calls for a feature that have completed.
Completed(featureName) ==
    {c \in 1..Len(updaters) :
        updaters[c].featureName = featureName /\ updaters[c].pc = "done"}

RowsOf(featureName) ==
    {k \in 1..Len(feature_importance) :
        feature_importance[k].feature_name = featureName}

\* C29: when n calls of updateFeatureImportance for a feature have
\* completed and none is running, in whatever order their statements ran,
\* the table holds exactly one row for the feature and its sample_count
\* is n.
C29_CounterUnderConcurrency ==
    (\A c \in 1..Len(updaters) : updaters[c].pc = "done") =>
        \A featureName \in FeatureNames :
            Completed(featureName) # {} =>
                /\ Cardinality(RowsOf(featureName)) = 1
                /\ \A k \in RowsOf(featureName) :
                      feature_importance[k].sample_count
                         = Cardinality(Completed(featureName))

====
